---- MODULE Spec2Model ----
(***************************************************************************)
(* SemNotes: the resilient data access layer (lib/supabase-utils,          *)
(* lib/database-fixed) and the emergency-mode logic of pages/Home.         *)
(*                                                                         *)
(* Four specifications share the variables below; each leaves the          *)
(* variables of the other parts at their idle values.                      *)
(*   SpecPure     - isBookmarked (both definitions) on bounded inputs      *)
(*   SpecBookmark - the bookmarks table with toggle/add/remove/fetch       *)
(*   SpecFetch    - one call of a retrying fetch wrapper against a         *)
(*                  backend that answers, errors, throws or hangs          *)
(*   SpecHome     - the Home page: emergency mode, connection tests,       *)
(*                  the three queries, reconnection                        *)
(***************************************************************************)
EXTENDS Integers, Sequences, FiniteSets, TLC

VARIABLES
    \* ---- SpecPure
    pBookmarks,     \* [missing |-> BOOLEAN, list |-> Seq(bookmark)] argument
    pId,            \* id argument
    pOut1,          \* result of isBookmarked, first definition
    pOut2,          \* result of isBookmarked, second definition
    pPc,            \* "idle" | "input" | "done"
    \* ---- SpecBookmark
    bookmarksTable, \* the rows of table bookmarks, in insertion order
    bResult,        \* what the last call returned to its caller
    bLast,          \* the last call: operation, definition, arguments, whether it succeeded
    bBeforeLast,    \* the caller's rows for the item when the last call started
    bRepeat,        \* the last call repeated the call before it and both succeeded
    \* ---- SpecFetch
    studentsRow,    \* the row of table students for the user, or NoRow
    subjectsTable,  \* the rows of table subjects
    fFn,            \* the function that was called
    fUserId,        \* its userId argument ("" is falsy)
    fInner,         \* fetchSubjectsForStudent, called with an id, is inside its
                    \* fetchStudentProfile call
    fPc,            \* "idle" | "start" | "connTest" | "request" | "fallback" | "backoff" | "done"
    fAttempt,       \* the loop's attempt counter
    fTimer,         \* the setTimeout that calls controller.abort(): "off" | "armed" | "fired"
    fSettled,       \* fetchUserBookmarks (2nd): outcome of each of its two selects, or "pending"
    fResult,        \* [kind, value] returned to the caller
    fThrew,         \* the call ended by throwing to its caller
    fAllFailed,     \* every backend request of the call ended in error, exception or abort
    fMainSent,      \* main-query requests sent by the function now running
    fFallbackSent,  \* permissive fallback queries sent
    fLastOutcome,   \* how the last main-query attempt ended
    fBackoffMs,     \* the delay of the last wait between two attempts, in ms
    \* ---- SpecHome
    hPhase,         \* "idle" | "loading" (page loaded, effects not yet run) | "mounted"
    isEmergencyMode,
    online,         \* navigator.onLine
    retryAttempt,   \* the retryAttempt URL parameter
    listening,      \* the offline/online listeners of the connection effect are registered
    chains,         \* each run of the connection-test effect: "idle" | "test1" | "wait" | "test2" | "done"
    profileQuery,   \* "idle" | "inflight": the ['userProfile'] query's request
    subjectsQuery,  \* the ['subjects'] query's request
    bookmarksQuery, \* the ['bookmarks'] query's request
    profileData,    \* what the cache holds: "none" | "backend" | "placeholder"
    subjectsData,   \* "empty" | "backend" | "placeholder"
    consecFails,    \* connection tests failed in a row (counted up to 2)
    emCause,        \* what first put this page instance in emergency mode
    \* ---- SpecCounters
    notes,          \* notes table: id -> [views, downloads]
    notes0,         \* the notes table before any call
    rowLock,        \* id -> the call whose UPDATE holds the row's lock, or 0
    cPc,            \* each rpc call: "idle" | "scan" | "locked" | "done"
    cFn,            \* the column its function increments: "views" | "downloads"
    cNote,          \* its note_id argument
    cRead,          \* the column's value its UPDATE read
    cWaited,        \* the calls whose UPDATE found the row locked and waited
    \* ---- SpecAuth
    aRows,          \* students table: user id -> row, or NoRow
    aRows0,         \* the students table at the start
    aUser,          \* the context's user state: a user id or "none"
    aIsAdmin,       \* the context's isAdmin state
    aPath,          \* the router's location
    aClosureUser,   \* the `user` the subscribed listener's closure holds
    aEffectPath,    \* the location at which the listener was subscribed
    aEvent,         \* each listener invocation: the auth event it handles, or "none"
    aEvUser,        \* the user whose SIGNED_IN it handles, or "none"
    aPc,            \* "idle" | "select" | "admin" | "upsert" | "done"
    aNavs,          \* the destinations it has navigated to, in order
    aSelOutcome,        \* how its profile select settled
    aSelRow,        \* the user's stored row when its profile select ran
    aCreated,       \* its upsert of the default profile succeeded
    aEvClosure,     \* the `user` held by the closure of the listener it runs in
    aStored,        \* the user of the session in the browser's storage, or "none"
    aLoading,       \* the context's loading state
    aInitPc,        \* each initializeAuth run: "idle" | "getSession" | "admin" | "select"
    aInitUser,      \* the user of the session its getSession returned, or "none"
    aInitClosure,   \* the `user` held by the closure of the effect run that started it
    \* ---- SpecAdmin
    admPath,            \* the router's location: "/admin" or "/home"
    admProfile,         \* data of the userProfile query: a profile or NoRow (undefined)
    admProfileStatus,   \* its status: "loading" | "success" | "error"
    admProfileFetching, \* a request of it is in flight
    admFailures,        \* failed attempts of the fetch in flight
    admStudents,        \* the allStudents query: "idle" | "fetching" | "success" | "error"
    admSubjects         \* the allSubjects query, likewise

pureVars == <<pBookmarks, pId, pOut1, pOut2, pPc>>
bmVars == <<bookmarksTable, bResult, bLast, bBeforeLast, bRepeat>>
fetchVars == <<studentsRow, subjectsTable, fFn, fUserId, fInner, fPc, fAttempt, fTimer,
               fSettled, fResult, fThrew, fAllFailed, fMainSent, fFallbackSent,
               fLastOutcome, fBackoffMs>>
homeVars == <<hPhase, isEmergencyMode, online, retryAttempt, listening, chains,
              profileQuery, subjectsQuery, bookmarksQuery, profileData, subjectsData,
              consecFails, emCause>>
ctrVars == <<notes, notes0, rowLock, cPc, cFn, cNote, cRead, cWaited>>

authInitVars == <<aLoading, aInitPc, aInitUser, aInitClosure>>

authVars == <<aRows, aRows0, aUser, aIsAdmin, aPath, aClosureUser, aEffectPath,
              aEvent, aEvUser, aPc, aNavs, aSelOutcome, aSelRow, aCreated,
              aEvClosure, aStored, authInitVars>>

adminVars == <<admPath, admProfile, admProfileStatus, admProfileFetching, admFailures,
               admStudents, admSubjects>>

vars == <<pureVars, bmVars, fetchVars, homeVars, ctrVars, authVars, adminVars>>

\* JavaScript undefined / null for an optional field
Undefined == "<undefined>"

\* ------------------------------------------------------------------------
\* Bounds
\* ------------------------------------------------------------------------
MaxLen == 2         \* longest bookmark list passed to isBookmarked
MaxRows == 2        \* most rows the bookmarks table holds
MaxSubjects == 2    \* most rows the subjects table holds
MaxChains == 1      \* runs of the connection-test effect in progress at once
MaxCalls == 2        \* concurrent rpc calls
MaxEvents == 1       \* auth events delivered to the listener
queryRetry == 1      \* App.tsx:29, retry of the query client's default options
MaxInits == 1        \* initializeAuth runs in progress at the same time
MaxRetryAttempt == 5 \* largest retryAttempt the URL reaches

\* ------------------------------------------------------------------------
\* isBookmarked
\* ------------------------------------------------------------------------
\* id strings; the empty string is a string like any other
Ids == {"", "a", "b"}

FieldValues == Ids \cup {Undefined}

BookmarkShapes == [note_id : FieldValues, subject_id : FieldValues]

SeqsUpTo(S, n) == UNION {[1..k -> S] : k \in 0..n}

\* JavaScript truthiness of an optional string
Truthy(v) == v # Undefined /\ v # ""

\* database-fixed.ts:52-55, the callback of the first definition
Match1(bookmark, id) ==
    \/ (Truthy(bookmark.subject_id) /\ bookmark.subject_id = id)
    \/ (Truthy(bookmark.note_id) /\ bookmark.note_id = id)

\* database-fixed.ts:317-319, the callback of the second definition
Match2(bookmark, id) ==
    (bookmark.note_id = id) \/ (bookmark.subject_id = id)

\* first definition: guard on missing / empty list, then some()
isBookmarked1(bookmarks, id) ==
    IF bookmarks.missing \/ Len(bookmarks.list) = 0
    THEN FALSE
    ELSE \E k \in 1..Len(bookmarks.list) : Match1(bookmarks.list[k], id)

\* second definition: bookmarks?.some(...) || false
isBookmarked2(bookmarks, id) ==
    IF bookmarks.missing
    THEN FALSE
    ELSE \E k \in 1..Len(bookmarks.list) : Match2(bookmarks.list[k], id)

PureInputs ==
    /\ pBookmarks \in
         {[missing |-> TRUE, list |-> <<>>]}
         \cup {[missing |-> FALSE, list |-> l] : l \in SeqsUpTo(BookmarkShapes, MaxLen)}
    /\ pId \in Ids
    /\ pOut1 = FALSE
    /\ pOut2 = FALSE
    /\ pPc = "input"

CallIsBookmarked ==
    /\ pPc = "input"
    /\ pOut1' = isBookmarked1(pBookmarks, pId)
    /\ pOut2' = isBookmarked2(pBookmarks, pId)
    /\ pPc' = "done"
    /\ UNCHANGED <<pBookmarks, pId>>
    /\ UNCHANGED <<bmVars, fetchVars, homeVars, ctrVars, authVars, adminVars>>

\* ------------------------------------------------------------------------
\* The bookmarks table and the calls of lib/database-fixed
\* ------------------------------------------------------------------------
Users == {"u1", "u2"}
Items == {"s1", "s2"}

\* how the backend settles one request: data/no error, an error object,
\* or a rejected promise (exception)
Outcomes == {"ok", "error", "throw"}

\* if (!userId || !itemId) return {success: false, message: 'Missing ...'}
HasIds(userId, itemId) == Truthy(userId) /\ Truthy(itemId)

\* the outcomes of the requests a two-request function may send: the second
\* request is sent only when the first failed, and none without both ids
OutcomePairs(userId, itemId) ==
    IF HasIds(userId, itemId)
    THEN {<<"ok", "ok">>} \cup ((Outcomes \ {"ok"}) \X Outcomes)
    ELSE {<<"ok", "ok">>}

\* arguments a caller may pass: an id, or an empty one
CallArgs == (Users \X Items) \cup {<<"", "s1">>, <<"u1", "">>}

Row(u, n, s) == [user_id |-> u, note_id |-> n, subject_id |-> s]

\* a table is an unordered collection of rows in which a row may occur more
\* than once; the model keeps it in one fixed order
Rank(v) == IF v = Undefined THEN 0 ELSE IF v \in {"u1", "s1"} THEN 1 ELSE 2

RowRank(r) == 9 * Rank(r.user_id) + 3 * Rank(r.note_id) + Rank(r.subject_id)

\* .insert({...}), answered without error
Insert(table, row) ==
    LET k == Cardinality({j \in 1..Len(table) : RowRank(table[j]) <= RowRank(row)})
    IN SubSeq(table, 1, k) \o <<row>> \o SubSeq(table, k + 1, Len(table))

\* the entries a select returns: the selected columns of each row
Entry(n, s) == [note_id |-> n, subject_id |-> s]

\* .select(...).eq('user_id', userId), answered without error
SelectUser(table, userId) == SelectSeq(table, LAMBDA r : r.user_id = userId)

\* select('*')
AllColumns(rows) == [k \in 1..Len(rows) |-> Entry(rows[k].note_id, rows[k].subject_id)]

\* select('id, user_id, note_id, created_at')
NoteIdColumns(rows) == [k \in 1..Len(rows) |-> Entry(rows[k].note_id, Undefined)]

\* select('id, user_id, subject_id, created_at')
SubjectIdColumns(rows) == [k \in 1..Len(rows) |-> Entry(Undefined, rows[k].subject_id)]

\* .delete().or(`subject_id.eq.${id},note_id.eq.${id}`).eq('user_id', userId)
DeleteEitherKey(table, userId, id) ==
    SelectSeq(table, LAMBDA r :
        ~((r.subject_id = id \/ r.note_id = id) /\ r.user_id = userId))

\* .delete().eq('user_id', userId).eq('note_id', itemId)
DeleteByNoteId(table, userId, itemId) ==
    SelectSeq(table, LAMBDA r : ~(r.user_id = userId /\ r.note_id = itemId))

\* .delete().eq('user_id', userId).eq('subject_id', itemId)
DeleteBySubjectId(table, userId, itemId) ==
    SelectSeq(table, LAMBDA r : ~(r.user_id = userId /\ r.subject_id = itemId))

NoResult == [success |-> FALSE, action |-> "none", threw |-> FALSE, data |-> <<>>,
             message |-> FALSE]

\* a result object; every one the mutations build carries a message
Returned(ok, act) == [success |-> ok, action |-> act, threw |-> FALSE, data |-> <<>>,
                      message |-> TRUE]

\* an exception leaves the function instead of a result
Thrown == [success |-> FALSE, action |-> "none", threw |-> TRUE, data |-> <<>>,
           message |-> FALSE]

Reply(table, res) == [table |-> table, result |-> res]

\* mutant: an exception of the request is not caught
toggleBookmark1_throws(table, userId, id, currentlyBookmarked, o1) ==
    IF o1 = "throw"
    THEN Reply(table, Thrown)
    ELSE IF o1 = "error"
         THEN Reply(table, Returned(FALSE, "none"))
         ELSE IF currentlyBookmarked
              THEN Reply(DeleteEitherKey(table, userId, id), Returned(TRUE, "removed"))
              ELSE Reply(Insert(table, Row(userId, id, id)), Returned(TRUE, "added"))

\* first definition of toggleBookmark: one request, chosen by the flag; an
\* error object and an exception both end in success: false
toggleBookmark1(table, userId, id, currentlyBookmarked, o1) ==
    IF currentlyBookmarked
    THEN IF o1 = "ok"
         THEN Reply(DeleteEitherKey(table, userId, id), Returned(TRUE, "removed"))
         ELSE Reply(table, Returned(FALSE, "none"))
    ELSE IF o1 = "ok"
         THEN Reply(Insert(table, Row(userId, id, id)), Returned(TRUE, "added"))
         ELSE Reply(table, Returned(FALSE, "none"))

\* first definition of addBookmark: one insert carrying both keys
addBookmark1(table, userId, itemId, o1) ==
    IF ~HasIds(userId, itemId)
    THEN Reply(table, Returned(FALSE, "none"))
    ELSE IF o1 = "ok"
         THEN Reply(Insert(table, Row(userId, itemId, itemId)), Returned(TRUE, "none"))
         ELSE Reply(table, Returned(FALSE, "none"))

\* first definition of removeBookmark: delete by note_id; only when that
\* request failed, delete by subject_id
removeBookmark1(table, userId, itemId, o1, o2) ==
    IF ~HasIds(userId, itemId)
    THEN Reply(table, Returned(FALSE, "none"))
    ELSE IF o1 = "ok"
         THEN Reply(DeleteByNoteId(table, userId, itemId), Returned(TRUE, "none"))
         ELSE IF o2 = "ok"
              THEN Reply(DeleteBySubjectId(table, userId, itemId), Returned(TRUE, "none"))
              ELSE Reply(table, Returned(FALSE, "none"))

\* second definition of addBookmark: insert with note_id, then with subject_id
addBookmark2(table, userId, itemId, o1, o2) ==
    IF ~HasIds(userId, itemId)
    THEN Reply(table, Returned(FALSE, "none"))
    ELSE IF o1 = "ok"
    THEN Reply(Insert(table, Row(userId, itemId, Undefined)), Returned(TRUE, "none"))
    ELSE IF o2 = "ok"
         THEN Reply(Insert(table, Row(userId, Undefined, itemId)), Returned(TRUE, "none"))
         ELSE Reply(table, Returned(FALSE, "none"))

\* second definition of removeBookmark: delete by note_id; only when that
\* request failed, delete by subject_id
removeBookmark2(table, userId, itemId, o1, o2) ==
    IF ~HasIds(userId, itemId)
    THEN Reply(table, Returned(FALSE, "none"))
    ELSE IF o1 = "ok"
    THEN Reply(DeleteByNoteId(table, userId, itemId), Returned(TRUE, "none"))
    ELSE IF o2 = "ok"
         THEN Reply(DeleteBySubjectId(table, userId, itemId), Returned(TRUE, "none"))
         ELSE Reply(table, Returned(FALSE, "none"))

\* second definition of toggleBookmark: {...result, action}
toggleBookmark2(table, userId, itemId, isCurrentlyBookmarked, o1, o2) ==
    LET r == IF isCurrentlyBookmarked
             THEN removeBookmark2(table, userId, itemId, o1, o2)
             ELSE addBookmark2(table, userId, itemId, o1, o2)
    IN Reply(r.table,
             [r.result EXCEPT !.action =
                 IF isCurrentlyBookmarked THEN "removed" ELSE "added"])

\* first definition of fetchUserBookmarks: select('*').eq('user_id', userId)
fetchUserBookmarks1(table, userId, o1) ==
    IF o1 = "ok"
    THEN AllColumns(SelectUser(table, userId))
    ELSE <<>>

\* second definition: two selects of the user's rows under Promise.allSettled,
\* one with the column note_id, one with the column subject_id
fetchUserBookmarks2(table, userId, o1, o2) ==
    LET noteIdData == NoteIdColumns(SelectUser(table, userId))
        subjectIdData == SubjectIdColumns(SelectUser(table, userId))
    IN IF o1 = "ok" /\ Len(noteIdData) > 0
       THEN noteIdData
       ELSE IF o2 = "ok" /\ Len(subjectIdData) > 0
            THEN [k \in 1..Len(subjectIdData) |->
                     [subjectIdData[k] EXCEPT !.note_id = subjectIdData[k].subject_id]]
            ELSE <<>>

\* the rows of a user that reference an item through either key
RowsFor(table, u, i) ==
    SelectSeq(table, LAMBDA r : r.user_id = u /\ (r.note_id = i \/ r.subject_id = i))

NoCall == [op |-> "none", def |-> 0, user |-> "u1", item |-> "s1",
           flag |-> FALSE, ok |-> FALSE]

\* a call settles; the next one starts after it (post-settlement)
Settle(call, reply) ==
    /\ Len(reply.table) <= MaxRows
    /\ bookmarksTable' = reply.table
    /\ bResult' = reply.result
    /\ bBeforeLast' = RowsFor(bookmarksTable, call.user, call.item)
    /\ bRepeat' = (call.ok /\ bLast = call)
    /\ bLast' = call
    /\ UNCHANGED <<pureVars, fetchVars, homeVars, ctrVars, authVars, adminVars>>

CallToggle1 ==
    \E u \in Users, i \in Items, flag \in BOOLEAN, o1 \in Outcomes :
        /\ Len(bookmarksTable) <= MaxRows
        /\ Settle([op |-> "toggle", def |-> 1, user |-> u, item |-> i,
                   flag |-> flag, ok |-> (o1 = "ok")],
                  toggleBookmark1(bookmarksTable, u, i, flag, o1))

CallToggle2 ==
    \E a \in CallArgs, flag \in BOOLEAN :
        \E o \in OutcomePairs(a[1], a[2]) :
            /\ Len(bookmarksTable) <= MaxRows
            /\ Settle([op |-> "toggle", def |-> 2, user |-> a[1], item |-> a[2],
                       flag |-> flag,
                       ok |-> (HasIds(a[1], a[2]) /\ (o[1] = "ok" \/ o[2] = "ok"))],
                      toggleBookmark2(bookmarksTable, a[1], a[2], flag, o[1], o[2]))

\* addBookmark of the first definition, called directly
CallAdd ==
    \E a \in CallArgs, o1 \in Outcomes :
        /\ Len(bookmarksTable) <= MaxRows
        /\ HasIds(a[1], a[2]) \/ o1 = "ok"
        /\ Settle([op |-> "add", def |-> 1, user |-> a[1], item |-> a[2],
                   flag |-> FALSE, ok |-> (HasIds(a[1], a[2]) /\ o1 = "ok")],
                  addBookmark1(bookmarksTable, a[1], a[2], o1))

\* removeBookmark of the first definition, called directly
CallRemove ==
    \E a \in CallArgs :
        \E o \in OutcomePairs(a[1], a[2]) :
            /\ Len(bookmarksTable) <= MaxRows
            /\ Settle([op |-> "remove", def |-> 1, user |-> a[1], item |-> a[2],
                       flag |-> TRUE,
                       ok |-> (HasIds(a[1], a[2]) /\ (o[1] = "ok" \/ o[2] = "ok"))],
                      removeBookmark1(bookmarksTable, a[1], a[2], o[1], o[2]))

CallFetch1 ==
    \E u \in Users, o1 \in Outcomes :
        /\ Len(bookmarksTable) <= MaxRows
        /\ Settle([op |-> "fetch", def |-> 1, user |-> u, item |-> "s1",
                   flag |-> FALSE, ok |-> (o1 = "ok")],
                  Reply(bookmarksTable,
                        [Returned(TRUE, "none") EXCEPT
                            !.data = fetchUserBookmarks1(bookmarksTable, u, o1),
                            !.message = FALSE]))

CallFetch2 ==
    \E u \in Users, o1 \in Outcomes, o2 \in Outcomes :
        /\ Len(bookmarksTable) <= MaxRows
        /\ Settle([op |-> "fetch", def |-> 2, user |-> u, item |-> "s1",
                   flag |-> FALSE, ok |-> (o1 = "ok" /\ o2 = "ok")],
                  Reply(bookmarksTable,
                        [Returned(TRUE, "none") EXCEPT
                            !.data = fetchUserBookmarks2(bookmarksTable, u, o1, o2),
                            !.message = FALSE]))

BookmarkNext ==
    \/ CallToggle1
    \/ CallToggle2
    \/ CallAdd
    \/ CallRemove
    \/ CallFetch1
    \/ CallFetch2

\* ------------------------------------------------------------------------
\* lib/supabase-utils: the retrying fetch wrappers, one call at a time
\* ------------------------------------------------------------------------
maxAttempts == 3

Years == {1, 2}
Semesters == {1, 2}
Branches == {"CSE", "ECE"}

SubjectRows == [academic_year : Years, semester : Semesters,
                branch : Branches, is_common : BOOLEAN]

NoRow == [academic_year |-> 0, semester |-> 0, branch |-> "", is_admin |-> FALSE]

\* Home.tsx:192-201, the default profile
DefaultProfile == [academic_year |-> 1, semester |-> 1, branch |-> "CSE", is_admin |-> FALSE]

\* part_002:248-253  .eq(academic_year).eq(semester).or(branch.eq.X,is_common.eq.true)
StrictQuery(table, profile) ==
    {s \in table : /\ s.academic_year = profile.academic_year
                   /\ s.semester = profile.semester
                   /\ (s.branch = profile.branch \/ s.is_common)}

\* part_002:290-293  .or(academic_year.eq.X,is_common.eq.true)
FallbackQuery(table, profile) ==
    {s \in table : s.academic_year = profile.academic_year \/ s.is_common}

Pending == [kind |-> "pending", value |-> <<>>]

\* the three ways a step of a call continues
Ret(kind, value) ==
    [pc |-> "done", result |-> [kind |-> kind, value |-> value], threw |-> FALSE]

Retry == [pc |-> "backoff", result |-> Pending, threw |-> FALSE]

Rethrow == [pc |-> "done", result |-> Pending, threw |-> TRUE]

TryFallback == [pc |-> "fallback", result |-> Pending, threw |-> FALSE]

Failures == {"error", "throw", "abort"}

\* mutant: the last failed attempt is passed on to the caller
fetchStudentProfile_settled_rethrows(outcome, row, attempt) ==
    IF outcome = "ok"
    THEN IF row # NoRow THEN Ret("profile", row) ELSE Ret("null", <<>>)
    ELSE IF attempt = maxAttempts THEN Rethrow ELSE Retry

\* part_002:87-136: the main query of fetchStudentProfile has settled
fetchStudentProfile_settled(outcome, row, attempt) ==
    IF outcome = "ok"
    THEN IF row # NoRow THEN Ret("profile", row) ELSE Ret("null", <<>>)
    ELSE IF attempt = maxAttempts THEN Ret("null", <<>>) ELSE Retry

\* part_002:273-327: the main query of fetchSubjectsForStudent has settled
fetchSubjectsForStudent_settled(outcome, data, attempt) ==
    IF outcome = "ok"
    THEN IF data = {}
         THEN IF attempt = maxAttempts - 1
              THEN TryFallback
              ELSE IF attempt = maxAttempts THEN Ret("subjects", {}) ELSE Retry
         ELSE Ret("subjects", data)
    ELSE IF attempt = maxAttempts THEN Ret("subjects", {}) ELSE Retry

\* part_002:290-305, 311-327: the permissive query has settled; its error
\* is not read, an error leaves fallbackData empty
fetchSubjectsForStudent_fallback(outcome, fallbackData, attempt) ==
    IF outcome = "ok" /\ fallbackData # {}
    THEN Ret("subjects", fallbackData)
    ELSE IF attempt = maxAttempts THEN Ret("subjects", {}) ELSE Retry

\* part_002:173-182
createOrUpdateStudentProfile_settled(outcome, row) ==
    IF outcome = "ok" THEN Ret("profile", row) ELSE Ret("null", <<>>)

\* part_002:354-367
safeSupabaseOperation_settled(outcome) ==
    IF outcome = "ok" THEN Ret("data", <<>>) ELSE Ret("default", <<>>)

\* part_002:104, 133: fetchStudentProfile's wait after failed attempt `attempt`
backoffMsProfile(attempt) == 500 * 2 ^ (attempt - 1)

\* mutant: the same wait before every retry
backoffMsSubjects_fixed(attempt) == 500

\* part_002:280, 308, 325: fetchSubjectsForStudent's wait after attempt `attempt`
backoffMsSubjects(attempt) == 500 * attempt

\* part_002:73-78: only fetchStudentProfile hands controller.signal to its
\* request; the other functions create the controller and never attach it
SignalAttached(fn) == fn = "fetchStudentProfile"

\* the functions whose request is guarded by a setTimeout(controller.abort)
HasTimer(fn) == fn # "fetchUserBookmarks1"

Functions == {"fetchStudentProfile", "fetchSubjectsForStudent",
              "createOrUpdateStudentProfile", "safeSupabaseOperation",
              "fetchUserBookmarks1", "fetchUserBookmarks2"}

\* the function whose body is executing
Cur == IF fInner THEN "fetchStudentProfile" ELSE fFn

\* the wait that starts when the running function goes to its backoff
NextBackoff ==
    fBackoffMs' = IF fPc' # "backoff" THEN fBackoffMs
                  ELSE IF Cur = "fetchStudentProfile" THEN backoffMsProfile(fAttempt)
                  ELSE backoffMsSubjects(fAttempt)

SubsetsUpTo(S, n) == {T \in SUBSET S : Cardinality(T) <= n}

FetchTables == {<<>>, <<Row("u1", "s1", Undefined)>>, <<Row("u1", Undefined, "s1")>>}

\* a step of the call continues as `next` says
Continue(next) ==
    /\ fPc' = next.pc
    /\ fResult' = next.result
    /\ fThrew' = next.threw

\* fetchSubjectsForStudent, after its profile is known: the loop's first attempt
StartSubjectsLoop ==
    /\ fPc' = "request"
    /\ fAttempt' = 1
    /\ fTimer' = "armed"
    /\ fMainSent' = 1
    /\ fResult' = Pending
    /\ fThrew' = FALSE
    /\ fInner' = FALSE
    /\ fLastOutcome' = "none"

\* fetchStudentProfile has come to `next`; inside fetchSubjectsForStudent(id)
\* a null profile ends the outer call with [] and a profile starts its loop
ProfileContinue(next, outcome) ==
    IF fInner /\ next.pc = "done"
    THEN IF next.threw
         THEN /\ Continue(Ret("subjects", {}))
              /\ fInner' = FALSE
              /\ fLastOutcome' = outcome
              /\ UNCHANGED <<fAttempt, fMainSent>>
              /\ fTimer' = "off"
         ELSE IF next.result.kind = "profile"
              THEN StartSubjectsLoop
              ELSE /\ Continue(Ret("subjects", {}))
                   /\ fInner' = FALSE
                   /\ fLastOutcome' = outcome
                   /\ UNCHANGED <<fAttempt, fMainSent>>
                   /\ fTimer' = "off"
    ELSE /\ Continue(next)
         /\ fTimer' = "off"
         /\ fLastOutcome' = outcome
         /\ UNCHANGED <<fInner, fAttempt, fMainSent>>

\* the function is called
FetchCall ==
    /\ fPc = "start"
    /\ UNCHANGED <<studentsRow, subjectsTable, fFn, fUserId, fSettled,
                   fAllFailed, fFallbackSent, fLastOutcome, fBackoffMs>>
    /\ IF fFn = "fetchStudentProfile" \/ (fFn = "fetchSubjectsForStudent" /\ fInner)
       THEN IF fUserId = ""
            THEN /\ Continue(IF fInner THEN Ret("subjects", {}) ELSE Ret("null", <<>>))
                 /\ fInner' = FALSE
                 /\ UNCHANGED <<fAttempt, fTimer, fMainSent>>
            ELSE /\ fPc' = "connTest"
                 /\ UNCHANGED <<fInner, fAttempt, fTimer, fMainSent, fResult, fThrew>>
       ELSE IF fFn = "fetchSubjectsForStudent"
            THEN StartSubjectsLoop
            ELSE IF fUserId = "" /\ fFn \in {"createOrUpdateStudentProfile",
                                            "fetchUserBookmarks2"}
                 THEN /\ Continue(IF fFn = "fetchUserBookmarks2"
                                  THEN Ret("bookmarks", <<>>) ELSE Ret("null", <<>>))
                      /\ UNCHANGED <<fInner, fAttempt, fTimer, fMainSent>>
                 ELSE /\ fPc' = "request"
                      /\ fTimer' = IF HasTimer(fFn) THEN "armed" ELSE "off"
                      /\ fMainSent' = 1
                      /\ UNCHANGED <<fInner, fAttempt, fResult, fThrew>>
    /\ UNCHANGED <<pureVars, bmVars, homeVars, ctrVars, authVars, adminVars>>

\* part_002:47: testSupabaseConnection settles (it catches everything and
\* its result is only logged), the loop's first attempt starts
ConnTestSettles ==
    /\ fPc = "connTest"
    /\ \E outcome \in Outcomes :
          fAllFailed' = (fAllFailed /\ outcome # "ok")
    /\ fPc' = "request"
    /\ fAttempt' = 1
    /\ fTimer' = "armed"
    /\ fMainSent' = 1
    /\ UNCHANGED <<studentsRow, subjectsTable, fFn, fUserId, fInner, fSettled, fResult,
                   fThrew, fFallbackSent, fLastOutcome, fBackoffMs>>
    /\ UNCHANGED <<pureVars, bmVars, homeVars, ctrVars, authVars, adminVars>>

\* the request in flight has ended with `outcome`
Settled(outcome) ==
    /\ fAllFailed' = (fAllFailed /\ outcome \in Failures)
    /\ UNCHANGED <<subjectsTable, fFn, fUserId, fSettled>>
    /\ UNCHANGED <<pureVars, bmVars, homeVars, ctrVars, authVars, adminVars>>
    /\ IF Cur = "fetchStudentProfile"
       THEN /\ ProfileContinue(
                  fetchStudentProfile_settled(outcome, studentsRow, fAttempt),
                  IF outcome = "ok"
                  THEN (IF studentsRow = NoRow THEN "empty" ELSE "data")
                  ELSE outcome)
            /\ UNCHANGED studentsRow
       ELSE IF Cur = "fetchSubjectsForStudent"
       THEN LET data == StrictQuery(subjectsTable, studentsRow)
                next == fetchSubjectsForStudent_settled(outcome, data, fAttempt)
            IN /\ Continue(next)
               /\ fTimer' = "off"
               /\ fLastOutcome' = IF outcome = "ok"
                                  THEN (IF data = {} THEN "empty" ELSE "data")
                                  ELSE outcome
               /\ UNCHANGED <<studentsRow, fInner, fAttempt, fMainSent>>
       ELSE IF Cur = "createOrUpdateStudentProfile"
       THEN /\ Continue(createOrUpdateStudentProfile_settled(outcome, DefaultProfile))
            /\ studentsRow' = IF outcome = "ok" THEN DefaultProfile ELSE studentsRow
            /\ fTimer' = "off"
            /\ fLastOutcome' = outcome
            /\ UNCHANGED <<fInner, fAttempt, fMainSent>>
       ELSE IF Cur = "safeSupabaseOperation"
       THEN /\ Continue(safeSupabaseOperation_settled(outcome))
            /\ fTimer' = "off"
            /\ fLastOutcome' = outcome
            /\ UNCHANGED <<studentsRow, fInner, fAttempt, fMainSent>>
       ELSE /\ Continue(Ret("bookmarks",
                            fetchUserBookmarks1(bookmarksTable, fUserId, outcome)))
            /\ fTimer' = "off"
            /\ fLastOutcome' = outcome
            /\ UNCHANGED <<studentsRow, fInner, fAttempt, fMainSent>>
    /\ fFallbackSent' = IF fPc' = "fallback" THEN fFallbackSent + 1 ELSE fFallbackSent
    /\ NextBackoff

\* the backend answers the request in flight, or the request fails
RequestSettles ==
    /\ fPc = "request"
    /\ Cur # "fetchUserBookmarks2"
    /\ \E outcome \in Outcomes : Settled(outcome)

\* the abort timer elapses while the request is in flight: controller.abort()
\* rejects the request only if the request was given the signal
TimerFires ==
    /\ fPc = "request"
    /\ fTimer = "armed"
    /\ IF SignalAttached(Cur)
       THEN Settled("abort")
       ELSE /\ fTimer' = "fired"
            /\ UNCHANGED <<studentsRow, subjectsTable, fFn, fUserId, fInner, fPc,
                           fAttempt, fSettled, fResult, fThrew, fAllFailed, fMainSent,
                           fFallbackSent, fLastOutcome, fBackoffMs>>
            /\ UNCHANGED <<pureVars, bmVars, homeVars, ctrVars, authVars, adminVars>>

\* part_002:290-305: the permissive query (no timer guards it) settles
FallbackSettles ==
    /\ fPc = "fallback"
    /\ \E outcome \in Outcomes :
          /\ Continue(fetchSubjectsForStudent_fallback(
                         outcome, FallbackQuery(subjectsTable, studentsRow), fAttempt))
          /\ fAllFailed' = (fAllFailed /\ outcome \in Failures)
          /\ NextBackoff
    /\ UNCHANGED <<studentsRow, subjectsTable, fFn, fUserId, fInner, fAttempt, fTimer,
                   fSettled, fMainSent, fFallbackSent, fLastOutcome>>
    /\ UNCHANGED <<pureVars, bmVars, homeVars, ctrVars, authVars, adminVars>>

\* the backoff delay has passed: the loop's next attempt sends its request
BackoffElapses ==
    /\ fPc = "backoff"
    /\ fAttempt < maxAttempts
    /\ fPc' = "request"
    /\ fAttempt' = fAttempt + 1
    /\ fTimer' = "armed"
    /\ fMainSent' = fMainSent + 1
    /\ UNCHANGED <<studentsRow, subjectsTable, fFn, fUserId, fInner, fSettled, fResult,
                   fThrew, fAllFailed, fFallbackSent, fLastOutcome, fBackoffMs>>
    /\ UNCHANGED <<pureVars, bmVars, homeVars, ctrVars, authVars, adminVars>>

\* fetchUserBookmarks (second definition): one of the two selects settles;
\* Promise.allSettled resolves when both have
BookmarkSelectSettles ==
    /\ fPc = "request"
    /\ Cur = "fetchUserBookmarks2"
    /\ \E k \in 1..2, outcome \in Outcomes :
          /\ fSettled[k] = "pending"
          /\ fSettled' = [fSettled EXCEPT ![k] = outcome]
          /\ fAllFailed' = (fAllFailed /\ outcome \in Failures)
          /\ IF fSettled'[1] # "pending" /\ fSettled'[2] # "pending"
             THEN /\ Continue(Ret("bookmarks",
                       fetchUserBookmarks2(bookmarksTable, fUserId,
                                           fSettled'[1], fSettled'[2])))
                  /\ fTimer' = "off"
             ELSE UNCHANGED <<fPc, fResult, fThrew, fTimer>>
    /\ UNCHANGED <<studentsRow, subjectsTable, fFn, fUserId, fInner, fAttempt,
                   fMainSent, fFallbackSent, fLastOutcome, fBackoffMs>>
    /\ UNCHANGED <<pureVars, bmVars, homeVars, ctrVars, authVars, adminVars>>

FetchNext ==
    \/ FetchCall
    \/ ConnTestSettles
    \/ RequestSettles
    \/ TimerFires
    \/ FallbackSettles
    \/ BackoffElapses
    \/ BookmarkSelectSettles

\* ------------------------------------------------------------------------
\* pages/Home: emergency mode, connection tests, queries, reconnection
\* ------------------------------------------------------------------------
Chains == 1..MaxChains

\* mutant: the third attempt already forces emergency mode
retryAttemptForcesEmergency_early(attempt) == attempt >= 3

\* Home.tsx:37
retryAttemptForcesEmergency(attempt) == attempt > 3

\* Home.tsx:222 / 277 / 297: the queries' enabled flags (the user is signed in)
profileEnabled(emergency) == ~emergency

subjectsEnabled(emergency) == ~emergency

bookmarksEnabled(emergency) == TRUE

\* mutant: the first failed test already forces emergency mode
afterFirstTest_forces(isConnected) ==
    [chain |-> IF isConnected THEN "done" ELSE "wait", force |-> ~isConnected]

\* Home.tsx:120-145: what follows the effect's first connection test
afterFirstTest(isConnected) ==
    [chain |-> IF isConnected THEN "done" ELSE "wait", force |-> FALSE]

\* Home.tsx:134-140: what follows the delayed second connection test
afterSecondTest(isConnectedRetry) ==
    [chain |-> "done", force |-> ~isConnectedRetry]

\* Home.tsx:155-158: handleOnline leaves the flag as it is
handleOnline(emergency) == emergency

\* Home.tsx:148-153: handleOffline, with the isEmergencyMode of its closure
handleOffline(emergency) == IF ~emergency THEN TRUE ELSE emergency

\* mutant: the flag follows the last check, a success clears it
nextEmergency_follows(emergency, force) == force

\* Home.tsx:60: the only setIsEmergencyMode call sets true
nextEmergency(emergency, force) == emergency \/ force

\* Home.tsx:58-105: forceEmergencyMode, when `force`; the re-render that
\* follows removes the effect's listeners (167-168)
ForceIf(force, cause) ==
    /\ isEmergencyMode' = nextEmergency(isEmergencyMode, force)
    /\ profileData' = IF force THEN "placeholder" ELSE profileData
    /\ subjectsData' = IF force THEN "placeholder" ELSE subjectsData
    /\ emCause' = IF force /\ ~isEmergencyMode THEN cause ELSE emCause
    /\ listening' = IF force THEN FALSE ELSE listening

CountTest(isConnected) ==
    consecFails' = IF isConnected THEN 0
                   ELSE IF consecFails < 2 THEN consecFails + 1 ELSE consecFails

\* the page has loaded: the first render (isEmergencyMode false) and its
\* effects - retryAttempt (35-41), connection test (108-168) - and the
\* queries that fetch on mount
Mount ==
    /\ hPhase = "loading"
    /\ hPhase' = "mounted"
    /\ LET byUrl == retryAttemptForcesEmergency(retryAttempt)
           byOffline == ~online
       IN /\ isEmergencyMode' = (byUrl \/ byOffline)
          /\ emCause' = IF byUrl THEN "retryAttempt"
                        ELSE IF byOffline THEN "offline" ELSE "none"
          /\ profileData' = IF byUrl \/ byOffline THEN "placeholder" ELSE "none"
          /\ subjectsData' = IF byUrl \/ byOffline THEN "placeholder" ELSE "empty"
          /\ listening' = (online /\ ~byUrl)
    /\ chains' = IF online THEN [chains EXCEPT ![1] = "test1"] ELSE chains
    /\ profileQuery' = IF profileEnabled(isEmergencyMode) THEN "inflight" ELSE "idle"
    /\ bookmarksQuery' = IF bookmarksEnabled(isEmergencyMode) THEN "inflight" ELSE "idle"
    /\ UNCHANGED <<online, retryAttempt, subjectsQuery, consecFails>>
    /\ UNCHANGED <<pureVars, bmVars, fetchVars, ctrVars, authVars, adminVars>>

\* the effect's dependencies changed (a new user object from the auth
\* context): cleanup, then the effect body again
EffectRerun ==
    /\ hPhase = "mounted"
    /\ ~isEmergencyMode
    /\ \E c \in Chains :
          /\ chains[c] \in {"idle", "done"}
          /\ chains' = IF online THEN [chains EXCEPT ![c] = "test1"] ELSE chains
    /\ ForceIf(~online, "offline")
    /\ UNCHANGED <<hPhase, online, retryAttempt, profileQuery, subjectsQuery,
                   bookmarksQuery, consecFails>>
    /\ UNCHANGED <<pureVars, bmVars, fetchVars, ctrVars, authVars, adminVars>>

\* testSupabaseConnection().then(...) of Home.tsx:120
FirstTestSettles ==
    /\ hPhase = "mounted"
    /\ \E c \in Chains, isConnected \in BOOLEAN :
          /\ chains[c] = "test1"
          /\ chains' = [chains EXCEPT ![c] = afterFirstTest(isConnected).chain]
          /\ ForceIf(afterFirstTest(isConnected).force, "tests")
          /\ CountTest(isConnected)
    /\ UNCHANGED <<hPhase, online, retryAttempt, profileQuery, subjectsQuery,
                   bookmarksQuery>>
    /\ UNCHANGED <<pureVars, bmVars, fetchVars, ctrVars, authVars, adminVars>>

\* the 5 s timer of Home.tsx:125-141 fires: offline forces emergency mode,
\* otherwise the second test is sent
RetryTimerFires ==
    /\ hPhase = "mounted"
    /\ \E c \in Chains :
          /\ chains[c] = "wait"
          /\ chains' = [chains EXCEPT ![c] = IF online THEN "test2" ELSE "done"]
    /\ ForceIf(~online, "offline")
    /\ UNCHANGED <<hPhase, online, retryAttempt, profileQuery, subjectsQuery,
                   bookmarksQuery, consecFails>>
    /\ UNCHANGED <<pureVars, bmVars, fetchVars, ctrVars, authVars, adminVars>>

\* the second test settles
SecondTestSettles ==
    /\ hPhase = "mounted"
    /\ \E c \in Chains, isConnectedRetry \in BOOLEAN :
          /\ chains[c] = "test2"
          /\ chains' = [chains EXCEPT ![c] = afterSecondTest(isConnectedRetry).chain]
          /\ ForceIf(afterSecondTest(isConnectedRetry).force, "tests")
          /\ CountTest(isConnectedRetry)
    /\ UNCHANGED <<hPhase, online, retryAttempt, profileQuery, subjectsQuery,
                   bookmarksQuery>>
    /\ UNCHANGED <<pureVars, bmVars, fetchVars, ctrVars, authVars, adminVars>>

\* the browser's 'offline' event
GoOffline ==
    /\ online
    /\ online' = FALSE
    /\ ForceIf(hPhase = "mounted" /\ listening /\ handleOffline(FALSE), "offline")
    /\ UNCHANGED <<hPhase, retryAttempt, chains, profileQuery, subjectsQuery,
                   bookmarksQuery, consecFails>>
    /\ UNCHANGED <<pureVars, bmVars, fetchVars, ctrVars, authVars, adminVars>>

\* the browser's 'online' event
GoOnline ==
    /\ ~online
    /\ online' = TRUE
    /\ isEmergencyMode' = IF hPhase = "mounted" /\ listening
                          THEN handleOnline(isEmergencyMode) ELSE isEmergencyMode
    /\ UNCHANGED <<hPhase, retryAttempt, listening, chains, profileQuery, subjectsQuery,
                   bookmarksQuery, profileData, subjectsData, consecFails, emCause>>
    /\ UNCHANGED <<pureVars, bmVars, fetchVars, ctrVars, authVars, adminVars>>

\* a refetch of the profile query (window focus, reconnect, invalidation)
ProfileRefetch ==
    /\ hPhase = "mounted"
    /\ profileEnabled(isEmergencyMode)
    /\ profileQuery = "idle"
    /\ profileQuery' = "inflight"
    /\ UNCHANGED <<hPhase, isEmergencyMode, online, retryAttempt, listening, chains,
                   subjectsQuery, bookmarksQuery, profileData, subjectsData,
                   consecFails, emCause>>
    /\ UNCHANGED <<pureVars, bmVars, fetchVars, ctrVars, authVars, adminVars>>

\* the profile request settles: the queryFn returns a profile (the stored
\* one or the default it created) and the cache takes it
ProfileSettles ==
    /\ profileQuery = "inflight"
    /\ profileQuery' = "idle"
    /\ profileData' = "backend"
    /\ UNCHANGED <<hPhase, isEmergencyMode, online, retryAttempt, listening, chains,
                   subjectsQuery, bookmarksQuery, subjectsData, consecFails, emCause>>
    /\ UNCHANGED <<pureVars, bmVars, fetchVars, ctrVars, authVars, adminVars>>

\* the subjects request is sent: the query becomes stale or is invalidated
\* (enabled, 277), or the refresh effect calls refetch() (336-343) because a
\* profile is loaded and no subjects are
SubjectsFetch ==
    /\ hPhase = "mounted"
    /\ subjectsQuery = "idle"
    /\ \/ subjectsEnabled(isEmergencyMode)
       \/ (profileData # "none" /\ subjectsData = "empty")
    /\ subjectsQuery' = "inflight"
    /\ UNCHANGED <<hPhase, isEmergencyMode, online, retryAttempt, listening, chains,
                   profileQuery, bookmarksQuery, profileData, subjectsData,
                   consecFails, emCause>>
    /\ UNCHANGED <<pureVars, bmVars, fetchVars, ctrVars, authVars, adminVars>>

\* the subjects request settles with a list, empty or not
SubjectsSettles ==
    /\ subjectsQuery = "inflight"
    /\ subjectsQuery' = "idle"
    /\ subjectsData' \in {"empty", "backend"}
    /\ UNCHANGED <<hPhase, isEmergencyMode, online, retryAttempt, listening, chains,
                   profileQuery, bookmarksQuery, profileData, consecFails, emCause>>
    /\ UNCHANGED <<pureVars, bmVars, fetchVars, ctrVars, authVars, adminVars>>

\* Home.tsx:502-541: the bookmark button of a displayed subject card;
\* after toggleBookmark the ['bookmarks'] query is invalidated and, being
\* enabled (297), fetches again
HandleBookmarkToggle ==
    /\ hPhase = "mounted"
    /\ subjectsData \in {"backend", "placeholder"}
    /\ bookmarksQuery = "idle"
    /\ bookmarksEnabled(isEmergencyMode)
    /\ bookmarksQuery' = "inflight"
    /\ UNCHANGED <<hPhase, isEmergencyMode, online, retryAttempt, listening, chains,
                   profileQuery, subjectsQuery, profileData, subjectsData,
                   consecFails, emCause>>
    /\ UNCHANGED <<pureVars, bmVars, fetchVars, ctrVars, authVars, adminVars>>

BookmarksSettles ==
    /\ bookmarksQuery = "inflight"
    /\ bookmarksQuery' = "idle"
    /\ UNCHANGED <<hPhase, isEmergencyMode, online, retryAttempt, listening, chains,
                   profileQuery, subjectsQuery, profileData, subjectsData,
                   consecFails, emCause>>
    /\ UNCHANGED <<pureVars, bmVars, fetchVars, ctrVars, authVars, adminVars>>

\* window.location.reload(): a new page instance, all component state gone
Reloaded ==
    /\ hPhase' = "loading"
    /\ isEmergencyMode' = FALSE
    /\ listening' = FALSE
    /\ chains' = [c \in Chains |-> "idle"]
    /\ profileQuery' = "idle"
    /\ subjectsQuery' = "idle"
    /\ bookmarksQuery' = "idle"
    /\ profileData' = "none"
    /\ subjectsData' = "empty"
    /\ consecFails' = 0
    /\ emCause' = "none"
    /\ UNCHANGED online

\* Home.tsx:44-55: attemptReconnection (the banner's and the refresh button's
\* action in emergency mode, 389-394, 606, 655)
AttemptReconnection ==
    /\ hPhase = "mounted"
    /\ isEmergencyMode
    /\ retryAttempt < MaxRetryAttempt
    /\ retryAttempt' = retryAttempt + 1
    /\ Reloaded
    /\ UNCHANGED <<pureVars, bmVars, fetchVars, ctrVars, authVars, adminVars>>

\* the user reloads the page in the browser
BrowserReload ==
    /\ hPhase = "mounted"
    /\ Reloaded
    /\ UNCHANGED retryAttempt
    /\ UNCHANGED <<pureVars, bmVars, fetchVars, ctrVars, authVars, adminVars>>

HomeNext ==
    \/ Mount
    \/ EffectRerun
    \/ FirstTestSettles
    \/ RetryTimerFires
    \/ SecondTestSettles
    \/ GoOffline
    \/ GoOnline
    \/ ProfileRefetch
    \/ ProfileSettles
    \/ SubjectsFetch
    \/ SubjectsSettles
    \/ HandleBookmarkToggle
    \/ BookmarksSettles
    \/ AttemptReconnection
    \/ BrowserReload

\* ------------------------------------------------------------------------
\* sql/increment_note_views.sql: the two counter functions, called
\* concurrently through supabase.rpc
\* ------------------------------------------------------------------------
Null == -1

NoteIds == {"n1", "n2"}

\* a note_id argument: an existing note, or an id no note has
NoteArgs == NoteIds \cup {"n0"}

Columns == {"views", "downloads"}

CounterValues == {Null, 1}

Calls == 1..MaxCalls

\* COALESCE(v, 0)
Coalesce(v) == IF v = Null THEN 0 ELSE v

\* SET views = COALESCE(views, 0) + 1, from the value the UPDATE read
incremented(v) == Coalesce(v) + 1

\* mutant: the UPDATE does not wait for the row's lock
lockFree_ignored(lock) == TRUE

\* an UPDATE takes the row's lock before it reads the row it will change;
\* while another transaction holds the lock it waits
lockFree(lock) == lock = 0

\* supabase.rpc('increment_note_views' | 'increment_note_downloads', {note_id})
RpcCall ==
    \E c \in Calls, column \in Columns, id \in NoteArgs :
        /\ cPc[c] = "idle"
        /\ cPc' = [cPc EXCEPT ![c] = "scan"]
        /\ cFn' = [cFn EXCEPT ![c] = column]
        /\ cNote' = [cNote EXCEPT ![c] = id]
        /\ UNCHANGED <<notes, notes0, rowLock, cRead, cWaited>>
        /\ UNCHANGED <<pureVars, bmVars, fetchVars, homeVars, authVars, adminVars>>

\* UPDATE notes ... WHERE id = note_id: no such row, the function returns
UpdateNoRow ==
    \E c \in Calls :
        /\ cPc[c] = "scan"
        /\ cNote[c] \notin NoteIds
        /\ cPc' = [cPc EXCEPT ![c] = "done"]
        /\ UNCHANGED <<notes, notes0, rowLock, cFn, cNote, cRead, cWaited>>
        /\ UNCHANGED <<pureVars, bmVars, fetchVars, homeVars, authVars, adminVars>>

\* the row is locked by another call's UPDATE: this one blocks
UpdateWaits ==
    \E c \in Calls :
        /\ cPc[c] = "scan"
        /\ cNote[c] \in NoteIds
        /\ ~lockFree(rowLock[cNote[c]])
        /\ c \notin cWaited
        /\ cWaited' = cWaited \cup {c}
        /\ UNCHANGED <<notes, notes0, rowLock, cPc, cFn, cNote, cRead>>
        /\ UNCHANGED <<pureVars, bmVars, fetchVars, homeVars, authVars, adminVars>>

\* the UPDATE locks the row and reads its latest committed version
UpdateLocksRow ==
    \E c \in Calls :
        /\ cPc[c] = "scan"
        /\ cNote[c] \in NoteIds
        /\ lockFree(rowLock[cNote[c]])
        /\ rowLock' = [rowLock EXCEPT ![cNote[c]] = c]
        /\ cRead' = [cRead EXCEPT ![c] = notes[cNote[c]][cFn[c]]]
        /\ cPc' = [cPc EXCEPT ![c] = "locked"]
        /\ UNCHANGED <<notes, notes0, cFn, cNote, cWaited>>
        /\ UNCHANGED <<pureVars, bmVars, fetchVars, homeVars, authVars, adminVars>>

\* the new row version is written and the function's transaction commits
UpdateCommits ==
    \E c \in Calls :
        /\ cPc[c] = "locked"
        /\ notes' = [notes EXCEPT ![cNote[c]][cFn[c]] = incremented(cRead[c])]
        /\ rowLock' = [rowLock EXCEPT ![cNote[c]] = IF @ = c THEN 0 ELSE @]
        /\ cPc' = [cPc EXCEPT ![c] = "done"]
        /\ UNCHANGED <<notes0, cFn, cNote, cRead, cWaited>>
        /\ UNCHANGED <<pureVars, bmVars, fetchVars, homeVars, authVars, adminVars>>

CountersNext ==
    \/ RpcCall
    \/ UpdateNoRow
    \/ UpdateWaits
    \/ UpdateLocksRow
    \/ UpdateCommits

\* ------------------------------------------------------------------------
\* auth/AuthContext: the onAuthStateChange listener; Home's profile query
\* ------------------------------------------------------------------------
\* "adm" is the user whose email is ADMIN_EMAIL
SessionUsers == {"u1", "adm"}

AuthEvents == {"SIGNED_IN", "SIGNED_OUT", "TOKEN_REFRESHED", "USER_UPDATED",
               "INITIAL_SESSION", "PASSWORD_RECOVERY"}

Events == 1..MaxEvents

Inits == 1..MaxInits

\* a profile the user chose at onboarding
StoredProfile == [academic_year |-> 2, semester |-> 2, branch |-> "ECE", is_admin |-> TRUE]

\* a row whose branch is still null
IncompleteProfile == [academic_year |-> 1, semester |-> 1, branch |-> "", is_admin |-> FALSE]

AuthProfiles == {NoRow, StoredProfile, IncompleteProfile}

\* AuthContext.tsx:74
isSessionChange(event) ==
    event \in {"SIGNED_IN", "SIGNED_OUT", "TOKEN_REFRESHED", "USER_UPDATED"}

\* AuthContext.tsx:100: !(!profile || !profile.branch || !profile.academic_year
\* || !profile.semester)
profileComplete(profile) ==
    /\ profile # NoRow
    /\ profile.branch # ""
    /\ profile.academic_year # 0
    /\ profile.semester # 0

\* AuthContext.tsx:33-54: checkIsAdmin, with the `user` of its closure and
\* the outcome of its students query
checkIsAdmin(user, rows, outcome) ==
    IF user = "none" THEN FALSE
    ELSE IF user = "adm" THEN TRUE
    ELSE outcome = "ok" /\ rows[user] # NoRow /\ rows[user].is_admin

\* AuthContext.tsx:100-150: what the SIGNED_IN branch does with the answer
\* of its profile select
afterProfileSelect(error, profile) ==
    IF error THEN "upsert"
    ELSE IF ~profileComplete(profile) THEN "/onboarding"
    ELSE "/home"

\* AuthContext.tsx:128-142
afterUpsert(outcome) == IF outcome = "ok" THEN "/home" ELSE "/onboarding"

\* fetchStudentProfile run to its return: attempt k ends as outcomes[k]
RECURSIVE fetchStudentProfile_result(_, _, _)
fetchStudentProfile_result(outcomes, row, attempt) ==
    LET next == fetchStudentProfile_settled(outcomes[attempt], row, attempt)
    IN IF next.pc = "done" \/ attempt = maxAttempts
       THEN next.result
       ELSE fetchStudentProfile_result(outcomes, row, attempt + 1)

\* navigate(to) called by invocation e
Navigate(e, to) ==
    /\ aNavs' = [aNavs EXCEPT ![e] = Append(@, to)]
    /\ aPath' = to

\* AuthContext.tsx:70-83, 157-163: the listener is invoked with an event
\* App.tsx:53-60: the routes wrapped in ProtectedRoute
ProtectedPaths == {"/onboarding", "/home", "/profile", "/subjects/:id", "/notes/:id",
                   "/upload", "/explore", "/admin"}

\* the locations at which the app is opened
OpenPaths == {"/auth", "/home"}

\* mutant: the children are rendered whoever asks
ProtectedRoute_open(user, children) == children

\* ProtectedRoute.tsx:9-17
ProtectedRoute(user, children) ==
    IF user = "none" THEN [kind |-> "Navigate", to |-> "/auth"] ELSE children

\* App.tsx:49-62: the element the router renders at `path`
RouteElement(path, user) ==
    IF path \in ProtectedPaths
    THEN ProtectedRoute(user, [kind |-> "page", to |-> path])
    ELSE [kind |-> "page", to |-> path]

\* what the current render shows
Rendered == RouteElement(aPath, aUser)

\* the effects of the last render have run: no redirect is pending. They run
\* when the render commits, before any later event, promise or timer
RouteEffectsDone ==
    /\ Rendered.kind # "Navigate"
    /\ ~(aPath = "/auth" /\ aUser # "none")

\* no initializeAuth run occupies slot i
InitFree(i) == aInitPc[i] = "idle"

AuthEventDelivered ==
    \E e \in Events, event \in AuthEvents, u \in SessionUsers \cup {"none"} :
        /\ aPc[e] = "idle"
        /\ RouteEffectsDone
        /\ \A j \in Events : j < e => aPc[j] # "idle"
        /\ (event = "SIGNED_OUT") => (u = "none" /\ aStored # "none")
        /\ (event \notin {"SIGNED_OUT", "INITIAL_SESSION"}) => (u # "none")
        /\ (event \notin {"SIGNED_IN", "SIGNED_OUT"}) => (u = aStored)
        /\ aStored' = IF isSessionChange(event) THEN u ELSE aStored
        /\ aEvClosure' = [aEvClosure EXCEPT ![e] =
                              IF event = "SIGNED_IN" THEN aClosureUser ELSE "none"]
        /\ aEvent' = [aEvent EXCEPT ![e] = event]
        /\ aEvUser' = [aEvUser EXCEPT ![e] = IF event = "SIGNED_IN" THEN u ELSE "none"]
        /\ aUser' = IF isSessionChange(event) THEN u ELSE aUser
        /\ IF event = "SIGNED_IN"
           THEN /\ aPc' = [aPc EXCEPT ![e] = "select"]
                /\ UNCHANGED <<aIsAdmin, aNavs, aPath>>
           ELSE IF event = "SIGNED_OUT"
           THEN /\ aIsAdmin' = FALSE
                /\ Navigate(e, "/")
                /\ aPc' = [aPc EXCEPT ![e] = "done"]
           ELSE /\ aPc' = [aPc EXCEPT ![e] = "done"]
                /\ UNCHANGED <<aIsAdmin, aNavs, aPath>>
        /\ UNCHANGED <<aRows, aRows0, aClosureUser, aEffectPath, aSelOutcome, aSelRow,
                       aCreated>>
        /\ UNCHANGED authInitVars
        /\ UNCHANGED <<pureVars, bmVars, fetchVars, homeVars, ctrVars, adminVars>>

\* AuthContext.tsx:87-91, 152-156: the profile select settles
ProfileSelectSettles ==
    \E e \in Events, outcome \in Outcomes :
        /\ aPc[e] = "select"
        /\ RouteEffectsDone
        /\ aSelRow' = [aSelRow EXCEPT ![e] = aRows[aEvUser[e]]]
        /\ aSelOutcome' = [aSelOutcome EXCEPT ![e] = outcome]
        /\ IF outcome = "throw"
           THEN /\ Navigate(e, "/onboarding")
                /\ aPc' = [aPc EXCEPT ![e] = "done"]
           ELSE /\ aPc' = [aPc EXCEPT ![e] = "admin"]
                /\ UNCHANGED <<aNavs, aPath>>
        /\ UNCHANGED <<aRows, aRows0, aUser, aIsAdmin, aClosureUser, aEffectPath,
                       aEvent, aEvUser, aCreated>>
        /\ UNCHANGED <<aEvClosure, aStored, authInitVars>>
        /\ UNCHANGED <<pureVars, bmVars, fetchVars, homeVars, ctrVars, adminVars>>

\* AuthContext.tsx:96-150: checkIsAdmin settles, setIsAdmin, and the branch
\* on the select's answer
CheckIsAdminSettles ==
    \E e \in Events, outcome \in Outcomes :
        /\ aPc[e] = "admin"
        /\ RouteEffectsDone
        /\ (aEvClosure[e] \in {"none", "adm"}) => (outcome = "ok")
        /\ aIsAdmin' = checkIsAdmin(aEvClosure[e], aRows, outcome)
        /\ LET next == afterProfileSelect(aSelOutcome[e] = "error", aSelRow[e])
           IN IF next = "upsert"
              THEN /\ aPc' = [aPc EXCEPT ![e] = "upsert"]
                   /\ UNCHANGED <<aNavs, aPath>>
              ELSE /\ Navigate(e, next)
                   /\ aPc' = [aPc EXCEPT ![e] = "done"]
        /\ UNCHANGED <<aRows, aRows0, aUser, aClosureUser, aEffectPath, aEvent,
                       aEvUser, aSelOutcome, aSelRow, aCreated>>
        /\ UNCHANGED <<aEvClosure, aStored, authInitVars>>
        /\ UNCHANGED <<pureVars, bmVars, fetchVars, homeVars, ctrVars, adminVars>>

\* AuthContext.tsx:113-142: the upsert of the default profile settles
UpsertSettles ==
    \E e \in Events, outcome \in Outcomes :
        /\ aPc[e] = "upsert"
        /\ RouteEffectsDone
        /\ aRows' = IF outcome = "ok"
                    THEN [aRows EXCEPT ![aEvUser[e]] = DefaultProfile]
                    ELSE aRows
        /\ aCreated' = [aCreated EXCEPT ![e] = (outcome = "ok")]
        /\ Navigate(e, afterUpsert(outcome))
        /\ aPc' = [aPc EXCEPT ![e] = "done"]
        /\ UNCHANGED <<aRows0, aUser, aIsAdmin, aClosureUser, aEffectPath, aEvent,
                       aEvUser, aSelOutcome, aSelRow>>
        /\ UNCHANGED <<aEvClosure, aStored, authInitVars>>
        /\ UNCHANGED <<pureVars, bmVars, fetchVars, homeVars, ctrVars, adminVars>>

\* AuthContext.tsx:67-69, 216-219: the location changed, so did navigate and
\* the effect's dependencies: the listener is subscribed again, its closure
\* holding the user of that render, and initializeAuth is called again
\* (168-170, 214)
Resubscribe ==
    /\ aEffectPath # aPath
    /\ RouteEffectsDone
    /\ aEffectPath' = aPath
    /\ aClosureUser' = aUser
    /\ \E i \in Inits :
          /\ InitFree(i)
          /\ \A j \in Inits : j < i => ~InitFree(j)
          /\ aInitPc' = [aInitPc EXCEPT ![i] = "getSession"]
          /\ aInitUser' = [aInitUser EXCEPT ![i] = "none"]
          /\ aInitClosure' = [aInitClosure EXCEPT ![i] = aUser]
    /\ aLoading' = TRUE
    /\ UNCHANGED <<aRows, aRows0, aUser, aIsAdmin, aPath, aEvent, aEvUser, aPc,
                   aNavs, aSelOutcome, aSelRow, aCreated>>
    /\ UNCHANGED <<aEvClosure, aStored>>
    /\ UNCHANGED <<pureVars, bmVars, fetchVars, homeVars, ctrVars, adminVars>>

\* Home.tsx:178-203: the userProfile queryFn on /home: fetchStudentProfile,
\* and when it returns null createOrUpdateStudentProfile with the default
\* profile. `failed` attempts end as `kind` before one is answered.
HomeProfileQuery ==
    \E failed \in 0..maxAttempts, kind \in Failures, upsert \in Outcomes :
        /\ aPath = "/home"
        /\ RouteEffectsDone
        /\ aUser # "none"
        /\ LET outcomes == [k \in 1..maxAttempts |-> IF k <= failed THEN kind ELSE "ok"]
               profile == fetchStudentProfile_result(outcomes, aRows[aUser], 1)
               saved == createOrUpdateStudentProfile_settled(upsert, DefaultProfile)
           IN aRows' = IF profile.kind = "profile" \/ saved.result.kind # "profile"
                       THEN aRows
                       ELSE [aRows EXCEPT ![aUser] = saved.result.value]
        /\ aRows' # aRows
        /\ UNCHANGED <<aRows0, aUser, aIsAdmin, aPath, aClosureUser, aEffectPath,
                       aEvent, aEvUser, aPc, aNavs, aSelOutcome, aSelRow, aCreated>>
        /\ UNCHANGED <<aEvClosure, aStored, authInitVars>>
        /\ UNCHANGED <<pureVars, bmVars, fetchVars, homeVars, ctrVars, adminVars>>

\* AuthContext.tsx:171-177, 196-211: getSession of an initializeAuth run
\* settles
InitGetSessionSettles ==
    \E i \in Inits, outcome \in {"ok", "throw"} :
        /\ aInitPc[i] = "getSession"
        /\ RouteEffectsDone
        /\ IF outcome = "ok" /\ aStored # "none"
           THEN /\ aUser' = aStored
                /\ aInitUser' = [aInitUser EXCEPT ![i] = aStored]
                /\ aInitPc' = [aInitPc EXCEPT ![i] = "admin"]
                /\ UNCHANGED <<aIsAdmin, aLoading, aInitClosure>>
           ELSE /\ aUser' = "none"
                /\ aIsAdmin' = FALSE
                /\ aLoading' = FALSE
                /\ aInitPc' = [aInitPc EXCEPT ![i] = "idle"]
                /\ aInitClosure' = [aInitClosure EXCEPT ![i] = "none"]
                /\ UNCHANGED aInitUser
        /\ UNCHANGED <<aRows, aRows0, aPath, aClosureUser, aEffectPath, aEvent,
                       aEvUser, aPc, aNavs, aSelOutcome, aSelRow, aCreated,
                       aEvClosure, aStored>>
        /\ UNCHANGED <<pureVars, bmVars, fetchVars, homeVars, ctrVars, adminVars>>

\* AuthContext.tsx:179-180: checkIsAdmin of an initializeAuth run settles
InitCheckIsAdminSettles ==
    \E i \in Inits, outcome \in Outcomes :
        /\ aInitPc[i] = "admin"
        /\ RouteEffectsDone
        /\ (aInitClosure[i] \in {"none", "adm"}) => (outcome = "ok")
        /\ aIsAdmin' = checkIsAdmin(aInitClosure[i], aRows, outcome)
        /\ aInitPc' = [aInitPc EXCEPT ![i] = "select"]
        /\ UNCHANGED <<aRows, aRows0, aUser, aPath, aClosureUser, aEffectPath, aEvent,
                       aEvUser, aPc, aNavs, aSelOutcome, aSelRow, aCreated,
                       aEvClosure, aStored, aLoading, aInitUser, aInitClosure>>
        /\ UNCHANGED <<pureVars, bmVars, fetchVars, homeVars, ctrVars, adminVars>>

\* AuthContext.tsx:183-211: the profile select of an initializeAuth run
\* settles; its error is not looked at, a rejection clears the state
InitProfileSelectSettles ==
    \E i \in Inits, outcome \in Outcomes :
        /\ aInitPc[i] = "select"
        /\ RouteEffectsDone
        /\ aUser' = IF outcome = "throw" THEN "none" ELSE aUser
        /\ aIsAdmin' = IF outcome = "throw" THEN FALSE ELSE aIsAdmin
        /\ aLoading' = FALSE
        /\ aInitPc' = [aInitPc EXCEPT ![i] = "idle"]
        /\ aInitUser' = [aInitUser EXCEPT ![i] = "none"]
        /\ aInitClosure' = [aInitClosure EXCEPT ![i] = "none"]
        /\ UNCHANGED <<aRows, aRows0, aPath, aClosureUser, aEffectPath, aEvent,
                       aEvUser, aPc, aNavs, aSelOutcome, aSelRow, aCreated,
                       aEvClosure, aStored>>
        /\ UNCHANGED <<pureVars, bmVars, fetchVars, homeVars, ctrVars, adminVars>>

\* <Navigate to="/auth" replace /> of ProtectedRoute.tsx:13 has been rendered:
\* its effect navigates
ProtectedRouteRedirects ==
    /\ Rendered.kind = "Navigate"
    /\ aPath' = Rendered.to
    /\ UNCHANGED <<aRows, aRows0, aUser, aIsAdmin, aClosureUser, aEffectPath, aEvent,
                   aEvUser, aPc, aNavs, aSelOutcome, aSelRow, aCreated, aEvClosure,
                   aStored, authInitVars>>
    /\ UNCHANGED <<pureVars, bmVars, fetchVars, homeVars, ctrVars, adminVars>>

\* part_001:17-22: the Auth page's effect sends a signed-in user to /home
AuthPageRedirects ==
    /\ aPath = "/auth"
    /\ aUser # "none"
    /\ aPath' = "/home"
    /\ UNCHANGED <<aRows, aRows0, aUser, aIsAdmin, aClosureUser, aEffectPath, aEvent,
                   aEvUser, aPc, aNavs, aSelOutcome, aSelRow, aCreated, aEvClosure,
                   aStored, authInitVars>>
    /\ UNCHANGED <<pureVars, bmVars, fetchVars, homeVars, ctrVars, adminVars>>

AuthNext ==
    \/ AuthEventDelivered
    \/ ProfileSelectSettles
    \/ CheckIsAdminSettles
    \/ UpsertSettles
    \/ Resubscribe
    \/ HomeProfileQuery
    \/ InitGetSessionSettles
    \/ InitCheckIsAdminSettles
    \/ InitProfileSelectSettles
    \/ ProtectedRouteRedirects
    \/ AuthPageRedirects

\* ------------------------------------------------------------------------
\* pages/Admin: the profile query, the admin queries, the redirect
\* ------------------------------------------------------------------------
\* the rows the userProfile query can read for the current user
AdminProfiles == {StoredProfile, DefaultProfile}

\* !!userProfile?.is_admin
profileIsAdmin(userProfile) == userProfile # NoRow /\ userProfile.is_admin

\* mutant: the admin queries are enabled whatever the profile says
adminQueriesEnabled_always(userProfile) == TRUE

\* Admin.tsx:81, 101: enabled of the allStudents and allSubjects queries
adminQueriesEnabled(userProfile) == profileIsAdmin(userProfile)

\* isLoading of the userProfile query: no data yet and not failed
profileLoading == admProfile = NoRow /\ admProfileStatus = "loading"

\* Admin.tsx:104-107: what Admin renders
AdminElement(loading, userProfile) ==
    IF ~loading /\ (userProfile = NoRow \/ ~userProfile.is_admin)
    THEN [kind |-> "Navigate", to |-> "/home"]
    ELSE [kind |-> "page", to |-> "/admin"]

\* the effects of Admin's last render have run: no redirect is pending
AdminEffectsDone ==
    /\ admPath = "/admin"
    /\ AdminElement(profileLoading, admProfile).kind = "page"

\* Admin.tsx:48-60 with the defaults of App.tsx:25-38: a request of the
\* userProfile query settles; .single() answers a missing row with an error
AdminProfileSettles ==
    \E outcome \in Outcomes, row \in AdminProfiles \cup {NoRow} :
        /\ AdminEffectsDone
        /\ admProfileFetching
        /\ IF outcome = "ok" /\ row # NoRow
           THEN /\ admProfile' = row
                /\ admProfileStatus' = "success"
                /\ admProfileFetching' = FALSE
                /\ admFailures' = 0
           ELSE IF admFailures < queryRetry
           THEN /\ admFailures' = admFailures + 1
                /\ UNCHANGED <<admProfile, admProfileStatus, admProfileFetching>>
           ELSE /\ admProfileStatus' = "error"
                /\ admProfileFetching' = FALSE
                /\ admFailures' = 0
                /\ UNCHANGED admProfile
        /\ UNCHANGED <<admPath, admStudents, admSubjects>>
        /\ UNCHANGED <<pureVars, bmVars, fetchVars, homeVars, ctrVars, authVars>>

\* the cached profile is refetched: it went stale and the window got focus,
\* or the queries were invalidated (App.tsx:30-34)
AdminProfileRefetch ==
    /\ AdminEffectsDone
    /\ ~admProfileFetching
    /\ admProfileFetching' = TRUE
    /\ admProfileStatus' = IF admProfile = NoRow THEN "loading" ELSE admProfileStatus
    /\ UNCHANGED <<admPath, admProfile, admFailures, admStudents, admSubjects>>
    /\ UNCHANGED <<pureVars, bmVars, fetchVars, homeVars, ctrVars, authVars>>

\* Admin.tsx:64-82: the allStudents query sends its request (on becoming
\* enabled, or refreshed by handleRefreshData, 110-114)
AllStudentsFetch ==
    /\ AdminEffectsDone
    /\ adminQueriesEnabled(admProfile)
    /\ admStudents # "fetching"
    /\ admStudents' = "fetching"
    /\ UNCHANGED <<admPath, admProfile, admProfileStatus, admProfileFetching,
                   admFailures, admSubjects>>
    /\ UNCHANGED <<pureVars, bmVars, fetchVars, homeVars, ctrVars, authVars>>

\* Admin.tsx:84-102: the allSubjects query sends its request
AllSubjectsFetch ==
    /\ AdminEffectsDone
    /\ adminQueriesEnabled(admProfile)
    /\ admSubjects # "fetching"
    /\ admSubjects' = "fetching"
    /\ UNCHANGED <<admPath, admProfile, admProfileStatus, admProfileFetching,
                   admFailures, admStudents>>
    /\ UNCHANGED <<pureVars, bmVars, fetchVars, homeVars, ctrVars, authVars>>

\* Admin.tsx:72-80: the allStudents request settles
AllStudentsSettles ==
    \E outcome \in {"ok", "error"} :
        /\ AdminEffectsDone
        /\ admStudents = "fetching"
        /\ admStudents' = IF outcome = "ok" THEN "success" ELSE "error"
        /\ UNCHANGED <<admPath, admProfile, admProfileStatus, admProfileFetching,
                       admFailures, admSubjects>>
        /\ UNCHANGED <<pureVars, bmVars, fetchVars, homeVars, ctrVars, authVars>>

\* Admin.tsx:92-100: the allSubjects request settles
AllSubjectsSettles ==
    \E outcome \in {"ok", "error"} :
        /\ AdminEffectsDone
        /\ admSubjects = "fetching"
        /\ admSubjects' = IF outcome = "ok" THEN "success" ELSE "error"
        /\ UNCHANGED <<admPath, admProfile, admProfileStatus, admProfileFetching,
                       admFailures, admStudents>>
        /\ UNCHANGED <<pureVars, bmVars, fetchVars, homeVars, ctrVars, authVars>>

\* Admin.tsx:105-107: <Navigate to="/home" replace /> has been rendered: its
\* effect navigates and Admin unmounts
AdminRedirects ==
    /\ admPath = "/admin"
    /\ AdminElement(profileLoading, admProfile).kind = "Navigate"
    /\ admPath' = AdminElement(profileLoading, admProfile).to
    /\ UNCHANGED <<admProfile, admProfileStatus, admProfileFetching, admFailures,
                   admStudents, admSubjects>>
    /\ UNCHANGED <<pureVars, bmVars, fetchVars, homeVars, ctrVars, authVars>>

AdminNext ==
    \/ AdminProfileSettles
    \/ AdminProfileRefetch
    \/ AllStudentsFetch
    \/ AllSubjectsFetch
    \/ AllStudentsSettles
    \/ AllSubjectsSettles
    \/ AdminRedirects

\* ------------------------------------------------------------------------
\* Claims about the bookmark calls
\* ------------------------------------------------------------------------
\* the id a stored row refers to, whichever key holds it
Target(r) == IF r.note_id # Undefined THEN r.note_id ELSE r.subject_id

\* C4: toggleBookmark called twice with the same user, item and flag, the
\* second call after the first has settled, both reporting success, leaves
\* the user's rows for that item as the single call left them.
C4_ToggleIdempotent ==
    (bLast.op = "toggle" /\ bRepeat)
        => RowsFor(bookmarksTable, bLast.user, bLast.item) = bBeforeLast

\* C9: when the backend answers fetchUserBookmarks without error, every
\* stored bookmark of the user, referenced through note_id or through
\* subject_id, has an entry in the returned list whose note_id is its target.
C9_FetchNormalized ==
    (bLast.op = "fetch" /\ bLast.ok)
        => \A k \in 1..Len(bookmarksTable) :
              bookmarksTable[k].user_id = bLast.user
                 => \E j \in 1..Len(bResult.data) :
                       bResult.data[j].note_id = Target(bookmarksTable[k])

\* C12: addBookmark, removeBookmark and toggleBookmark never throw; they
\* return a result object with a message, success false when every request
\* that was tried ended in an error or an exception, and success true only
\* when an insert or delete completed without error.
C12_MutationsNeverThrow ==
    (bLast.op \in {"toggle", "add", "remove"})
        => /\ ~bResult.threw
           /\ bResult.message
           /\ bResult.success = bLast.ok

\* a toggle whose request raised an exception has returned success: false
C12_Witness ==
    /\ bLast.op = "toggle"
    /\ bLast.def = 1
    /\ ~bLast.ok
    /\ ~bResult.success
    /\ ~bResult.threw
    /\ bookmarksTable # <<>>

\* a call of removeBookmark: the first definition directly, the second
\* through toggleBookmark, which passes its result on
IsRemove(call) ==
    \/ call.op = "remove"
    \/ (call.op = "toggle" /\ call.def = 2 /\ call.flag)

\* C17: whenever removeBookmark(userId, itemId) returns success: true, no row
\* of that user references itemId through note_id or through subject_id.
C17_RemoveRemovesBothKeys ==
    (IsRemove(bLast) /\ bResult.success)
        => RowsFor(bookmarksTable, bLast.user, bLast.item) = <<>>

\* ------------------------------------------------------------------------
\* Claims about isBookmarked
\* ------------------------------------------------------------------------
\* some bookmark of the list has note_id equal to id or subject_id equal to id
EitherKeyMatches(list, id) ==
    \E k \in 1..Len(list) : list[k].note_id = id \/ list[k].subject_id = id

C5_NonEmptyIds ==
    (pPc = "done" /\ pId # "") =>
        LET expected == ~pBookmarks.missing /\ EitherKeyMatches(pBookmarks.list, pId)
        IN pOut1 = expected /\ pOut2 = expected

\* ------------------------------------------------------------------------
\* Claims about the fetch wrappers
\* ------------------------------------------------------------------------
\* the value each function declares for failure
IsDefault(fn, result) ==
    IF fn = "fetchStudentProfile" THEN result.kind = "null"
    ELSE IF fn = "fetchSubjectsForStudent"
         THEN result.kind = "subjects" /\ result.value = {}
    ELSE IF fn \in {"fetchUserBookmarks1", "fetchUserBookmarks2"}
         THEN result.kind = "bookmarks" /\ result.value = <<>>
    ELSE IF fn = "safeSupabaseOperation" THEN result.kind = "default"
    ELSE result.kind = "null"

\* C1: when every backend request of a call failed (error response, thrown
\* exception or timeout abort), fetchStudentProfile returns null,
\* fetchSubjectsForStudent and fetchUserBookmarks return the empty list and
\* safeSupabaseOperation returns its defaultValue; none of them throws.
C1_DefaultOnFailure ==
    (fPc = "done" /\ fAllFailed) => (~fThrew /\ IsDefault(fFn, fResult))

\* all three attempts of fetchSubjectsForStudent's loop failed and it returned
C1_Witness ==
    /\ fPc = "done"
    /\ fAllFailed
    /\ fFn = "fetchSubjectsForStudent"
    /\ fMainSent = maxAttempts
    /\ fLastOutcome \in Failures

\* C6: for the profile (academic_year 1, semester 1, branch CSE) every subject
\* fetchSubjectsForStudent returns matches (1, 1, CSE) or is flagged is_common,
\* on every return path.
C6_OnlyMatchingSubjects ==
    (fPc = "done" /\ fFn = "fetchSubjectsForStudent" /\ studentsRow = DefaultProfile)
        => \A s \in fResult.value :
              \/ (s.academic_year = 1 /\ s.semester = 1 /\ s.branch = "CSE")
              \/ s.is_common

\* C7: fetchStudentProfile and fetchSubjectsForStudent send their main query
\* at most 3 times per call, attempt n+1 only after attempt n ended in an
\* error, exception or timeout, and an attempt that returns data ends the call.
C7_RetryOnlyAfterFailure ==
    (Cur \in {"fetchStudentProfile", "fetchSubjectsForStudent"})
        => /\ fMainSent <= maxAttempts
           /\ (fPc = "request" /\ fAttempt > 1) => fLastOutcome \in Failures
           /\ (fLastOutcome = "data") => fPc = "done"

\* the parts of C7 that do not depend on why an attempt is repeated
C7_AtMostThreeAttempts ==
    (Cur \in {"fetchStudentProfile", "fetchSubjectsForStudent"})
        => /\ fMainSent <= maxAttempts
           /\ (fPc = "request" /\ fAttempt > 1) => fLastOutcome \in Failures \cup {"empty"}
           /\ (fLastOutcome = "data") => fPc = "done"

\* C8: every call eventually returns, also when a backend request never
\* responds.
C8_EventuallyReturns == <>(fPc = "done")

\* what the abort timer does achieve: an unanswered main query of
\* fetchStudentProfile does not stay in flight
C8_ProfileQueryAborted ==
    (fPc = "request" /\ Cur = "fetchStudentProfile" /\ fAttempt = maxAttempts)
        ~> (fPc = "done" \/ Cur # "fetchStudentProfile")

\* C11: an error-free answer with no matching row is a valid empty state:
\* fetchStudentProfile returns null and fetchSubjectsForStudent returns []
\* after that single response, with no retry, wait or further query.
C11_EmptyIsFinal ==
    (Cur \in {"fetchStudentProfile", "fetchSubjectsForStudent"} /\ fLastOutcome = "empty")
        => (fPc = "done" /\ fMainSent = 1 /\ fFallbackSent = 0)

\* the half of C11 that fetchStudentProfile alone does satisfy
C11_ProfileEmptyIsFinal ==
    (fFn = "fetchStudentProfile" /\ fLastOutcome = "empty")
        => (fPc = "done" /\ fResult.kind = "null" /\ fFallbackSent = 0)

\* C13: the wait before retry k (k = 1, 2) is 500 * 2^(k-1) ms, 500 ms and
\* then 1000 ms, in fetchStudentProfile and in fetchSubjectsForStudent.
C13_ExponentialBackoff ==
    (fPc = "backoff" /\ Cur \in {"fetchStudentProfile", "fetchSubjectsForStudent"})
        => /\ fAttempt \in {1, 2}
           /\ fBackoffMs = 500 * 2 ^ (fAttempt - 1)

\* fetchSubjectsForStudent waits 1000 ms before its third attempt
C13_Witness ==
    /\ fPc = "backoff"
    /\ Cur = "fetchSubjectsForStudent"
    /\ fAttempt = 2
    /\ fBackoffMs = 1000

\* C18: the permissive fallback query is sent only on the last attempt, after
\* the strict query returned no rows on all 3 attempts, and no strict query
\* is sent after the fallback query.
C18_FallbackOnlyLast ==
    (fFn = "fetchSubjectsForStudent" /\ fFallbackSent > 0)
        => /\ fMainSent = maxAttempts
           /\ fPc \in {"fallback", "done"}

\* what the code does keep: at most one fallback query per call, sent only
\* after the strict query's second empty answer
C18_FallbackAfterSecondEmpty ==
    (fFn = "fetchSubjectsForStudent" /\ fFallbackSent > 0)
        => /\ fFallbackSent = 1
           /\ fMainSent >= maxAttempts - 1
           /\ (fPc = "fallback" => (fLastOutcome = "empty" /\ fAttempt = maxAttempts - 1))

\* ------------------------------------------------------------------------
\* Claims about Home's emergency mode
\* ------------------------------------------------------------------------
\* C2 as stated: isEmergencyMode turns true only when the threshold number
\* (two) of connection tests have failed in a row; one failure or none never
\* activates it.
C2_OnlyAfterThreshold ==
    [][(~isEmergencyMode /\ isEmergencyMode') => consecFails' >= 2]_vars

\* C2, amended: isEmergencyMode turns true only when the browser reports
\* offline, or the page loads with retryAttempt > 3, or the second connection
\* test of an effect run fails after that run's first test failed; the
\* first failed test alone never activates it.
C2_ActivationCauses ==
    [][(~isEmergencyMode /\ isEmergencyMode') =>
          \/ ~online'
          \/ (hPhase = "loading" /\ retryAttempt > 3)
          \/ \E c \in Chains :
                chains[c] = "test2" /\ chains'[c] = "done" /\ consecFails' >= 1]_vars

\* emergency mode was entered because both tests of an effect run failed
C2_Witness ==
    isEmergencyMode /\ emCause = "tests" /\ online /\ retryAttempt <= 3

\* C3: once isEmergencyMode is true it stays true in every later state of
\* that page instance; only a reload of the page (attemptReconnection) ends
\* it - no online event, successful connection test or fetch clears it.
C3_StaysUntilReload ==
    [][(isEmergencyMode /\ ~isEmergencyMode') => hPhase' = "loading"]_vars

\* in emergency mode since the browser went offline, the browser is online
\* again, a connection test has succeeded and the profile fetch has come back
C3_Witness ==
    /\ hPhase = "mounted"
    /\ isEmergencyMode
    /\ emCause = "offline"
    /\ online
    /\ consecFails = 0
    /\ \E c \in Chains : chains[c] = "done"
    /\ profileData = "backend"

\* C10: while isEmergencyMode is true no read request (profile, subjects or
\* bookmarks) is sent to the backend.
C10_NoReadsInEmergency ==
    [][isEmergencyMode =>
          /\ (profileQuery' = "inflight" => profileQuery = "inflight")
          /\ (subjectsQuery' = "inflight" => subjectsQuery = "inflight")
          /\ (bookmarksQuery' = "inflight" => bookmarksQuery = "inflight")]_vars

\* the part of C10 the enabled flags do give: no profile request
C10_NoProfileReadInEmergency ==
    [][isEmergencyMode => (profileQuery' = "inflight" => profileQuery = "inflight")]_vars

C20_FirstThreeCanSucceed ==
    (hPhase = "mounted" /\ isEmergencyMode /\ retryAttempt <= 3)
        => emCause \in {"offline", "tests"}

\* ------------------------------------------------------------------------
\* Claims about the note counters
\* ------------------------------------------------------------------------
\* the calls on note n and the given column that have returned
Completed(n, column) ==
    {c \in Calls : cPc[c] = "done" /\ cNote[c] = n /\ cFn[c] = column}

\* C14: each call of increment_note_views (increment_note_downloads) for an
\* existing note raises that note's views (downloads) by exactly 1, a NULL
\* counter counting as 0, and changes no other note or column; after any
\* interleaving of n calls on the same note the counter is exactly n higher.
C14_CountersExact ==
    \A n \in NoteIds, column \in Columns :
        LET k == Cardinality(Completed(n, column))
        IN notes[n][column] = IF k = 0 THEN notes0[n][column]
                              ELSE Coalesce(notes0[n][column]) + k

\* all calls were made on the views of one note whose counter was NULL, one
\* of them had to wait for another's row lock, and all have returned
C14_Witness ==
    /\ \A c \in Calls : cPc[c] = "done" /\ cNote[c] = "n1" /\ cFn[c] = "views"
    /\ cWaited # {}
    /\ notes0["n1"].views = Null
    /\ notes["n1"].views = Cardinality(Calls)

\* ------------------------------------------------------------------------
\* Claims about the auth listener and the default profile
\* ------------------------------------------------------------------------
\* C15: each SIGNED_IN event makes the listener navigate exactly once, to
\* /home when the user's profile exists with branch, academic_year and
\* semester set or when the default profile was created, to /onboarding
\* otherwise; each SIGNED_OUT navigates to / ; no other event navigates.
C15_NavigationByEvent ==
    \A e \in Events :
        aPc[e] = "done" =>
            aNavs[e] = IF aEvent[e] = "SIGNED_IN"
                       THEN IF profileComplete(aSelRow[e]) \/ aCreated[e]
                            THEN <<"/home">> ELSE <<"/onboarding">>
                       ELSE IF aEvent[e] = "SIGNED_OUT" THEN <<"/">>
                       ELSE <<>>

\* C15 with the profile as the listener's select answered it: one navigation
\* per SIGNED_IN and per SIGNED_OUT, none for any other event
C15_NavigatesOncePerEvent ==
    \A e \in Events :
        /\ Len(aNavs[e]) <= 1
        /\ aPc[e] = "done" =>
            aNavs[e] = IF aEvent[e] = "SIGNED_IN"
                       THEN IF (aSelOutcome[e] = "ok" /\ profileComplete(aSelRow[e]))
                               \/ aCreated[e]
                            THEN <<"/home">> ELSE <<"/onboarding">>
                       ELSE IF aEvent[e] = "SIGNED_OUT" THEN <<"/">>
                       ELSE <<>>

\* C16: the default profile is written only when the user has no profile: a
\* stored profile's academic_year, semester, branch and is_admin are never
\* overwritten by Home's profile query or by the SIGNED_IN handler.
C16_StoredProfileKept ==
    \A u \in SessionUsers : aRows0[u] # NoRow => aRows[u] = aRows0[u]

\* the user is an administrator: by email, or by the students row
IsAdminUser(u, rows) ==
    u # "none" /\ (u = "adm" \/ (rows[u] # NoRow /\ rows[u].is_admin))

\* C21: when the SIGNED_IN handler, or initializeAuth after it found a
\* session, sets isAdmin, the value is true iff the user of that session has
\* the email ADMIN_EMAIL or a students row with is_admin = true.
C21_IsAdminOfSessionUser ==
    [][/\ \A e \in Events :
            (aPc[e] = "admin" /\ aPc'[e] # "admin")
                => aIsAdmin' = IsAdminUser(aEvUser[e], aRows)
       /\ \A i \in Inits :
            (aInitPc[i] = "admin" /\ aInitPc'[i] = "select")
                => aIsAdmin' = IsAdminUser(aInitUser[i], aRows)]_vars

\* C21 with the user the closure holds: isAdmin is set to true only if the
\* `user` of the render in which the listener was subscribed is an
\* administrator
C21_IsAdminOfClosureUser ==
    [][/\ \A e \in Events :
            (aPc[e] = "admin" /\ aPc'[e] # "admin" /\ aIsAdmin')
                => IsAdminUser(aEvClosure[e], aRows)
       /\ \A i \in Inits :
            (aInitPc[i] = "admin" /\ aInitPc'[i] = "select" /\ aIsAdmin')
                => IsAdminUser(aInitClosure[i], aRows)]_vars

\* C22: at a protected route the page's content is rendered only while the
\* context's user is non-null; whenever user is null the route renders the
\* redirect to /auth.
C22_ProtectedContentNeedsUser ==
    aPath \in ProtectedPaths =>
        /\ (Rendered.kind = "page") <=> (aUser # "none")
        /\ (aUser = "none") => (Rendered = [kind |-> "Navigate", to |-> "/auth"])

\* a signed-in user's session is gone (signed out elsewhere, or getSession
\* failed) when initializeAuth runs again on /home: user is null at a
\* protected route
C22_Witness ==
    /\ aPath = "/home"
    /\ aUser = "none"
    /\ ~aLoading
    /\ \E e \in Events : aEvent[e] = "SIGNED_IN" /\ aPc[e] = "done"
    /\ Rendered.kind = "Navigate"

\* C23: a user with a stored session who is at a protected route is never
\* redirected to /auth.
C23_NeverRedirectedToAuth ==
    [][(aStored # "none" /\ aPath \in ProtectedPaths) => aPath' # "/auth"]_vars

\* C23 once initializeAuth has set the user: with user non-null no step
\* leads from a protected route to /auth
C23_NoRedirectOnceUserSet ==
    [][(aUser # "none" /\ aPath \in ProtectedPaths) => aPath' # "/auth"]_vars

\* ------------------------------------------------------------------------
\* Claims about the Admin page
\* ------------------------------------------------------------------------
\* C24: the allStudents and allSubjects requests are sent only while the
\* loaded profile has is_admin = true, and once the profile has finished
\* loading a user whose profile is missing or has is_admin = false is
\* redirected to /home: the redirect is the only thing Admin then does.
C24_AdminOnly ==
    [][/\ (admStudents # "fetching" /\ admStudents' = "fetching")
             => (admProfile # NoRow /\ admProfile.is_admin)
       /\ (admSubjects # "fetching" /\ admSubjects' = "fetching")
             => (admProfile # NoRow /\ admProfile.is_admin)
       /\ (admPath = "/admin" /\ ~profileLoading
             /\ (admProfile = NoRow \/ ~admProfile.is_admin))
             => admPath' = "/home"]_vars

\* a user whose profile was loaded with is_admin = true, and refetched with
\* is_admin = false after the admin queries had answered, is on /home
C24_Witness ==
    /\ admPath = "/home"
    /\ admProfile # NoRow
    /\ ~admProfile.is_admin
    /\ admStudents = "success"
    /\ admSubjects = "success"

\* ------------------------------------------------------------------------
\* Specifications
\* ------------------------------------------------------------------------
PureIdle ==
    /\ pBookmarks = [missing |-> TRUE, list |-> <<>>]
    /\ pId = ""
    /\ pOut1 = FALSE
    /\ pOut2 = FALSE
    /\ pPc = "idle"

\* no bookmark call has been made; the table is empty
BookmarkIdle ==
    /\ bookmarksTable = <<>>
    /\ bResult = NoResult
    /\ bLast = NoCall
    /\ bBeforeLast = <<>>
    /\ bRepeat = FALSE

FetchIdle ==
    /\ studentsRow = NoRow
    /\ subjectsTable = {}
    /\ fFn = "none"
    /\ fUserId = ""
    /\ fInner = FALSE
    /\ fPc = "idle"
    /\ fAttempt = 0
    /\ fTimer = "off"
    /\ fSettled = <<"pending", "pending">>
    /\ fResult = Pending
    /\ fThrew = FALSE
    /\ fAllFailed = TRUE
    /\ fMainSent = 0
    /\ fFallbackSent = 0
    /\ fLastOutcome = "none"
    /\ fBackoffMs = 0

HomeIdle ==
    /\ hPhase = "idle"
    /\ isEmergencyMode = FALSE
    /\ online = TRUE
    /\ retryAttempt = 0
    /\ listening = FALSE
    /\ chains = [c \in Chains |-> "idle"]
    /\ profileQuery = "idle"
    /\ subjectsQuery = "idle"
    /\ bookmarksQuery = "idle"
    /\ profileData = "none"
    /\ subjectsData = "empty"
    /\ consecFails = 0
    /\ emCause = "none"

CountersIdle ==
    /\ notes = [n \in NoteIds |-> [views |-> Null, downloads |-> Null]]
    /\ notes0 = notes
    /\ rowLock = [n \in NoteIds |-> 0]
    /\ cPc = [c \in Calls |-> "idle"]
    /\ cFn = [c \in Calls |-> "views"]
    /\ cNote = [c \in Calls |-> "n0"]
    /\ cRead = [c \in Calls |-> Null]
    /\ cWaited = {}

\* some notes with their counters; no call has been made
CountersInputs ==
    /\ notes \in [NoteIds -> [views : CounterValues, downloads : CounterValues]]
    /\ notes0 = notes
    /\ rowLock = [n \in NoteIds |-> 0]
    /\ cPc = [c \in Calls |-> "idle"]
    /\ cFn = [c \in Calls |-> "views"]
    /\ cNote = [c \in Calls |-> "n0"]
    /\ cRead = [c \in Calls |-> Null]
    /\ cWaited = {}

AdminIdle ==
    /\ admPath = "/home"
    /\ admProfile = NoRow
    /\ admProfileStatus = "loading"
    /\ admProfileFetching = FALSE
    /\ admFailures = 0
    /\ admStudents = "idle"
    /\ admSubjects = "idle"

\* a signed-in user has opened /admin: the cache holds no profile, or one
\* cached by an earlier page, fresh or stale; a missing or stale one is
\* fetched on mount
AdminInputs ==
    /\ admPath = "/admin"
    /\ admProfile \in AdminProfiles \cup {NoRow}
    /\ admProfileStatus = IF admProfile = NoRow THEN "loading" ELSE "success"
    /\ admProfileFetching \in BOOLEAN
    /\ (admProfile = NoRow) => admProfileFetching
    /\ admFailures = 0
    /\ admStudents = "idle"
    /\ admSubjects = "idle"

AuthIdle ==
    /\ aRows = [u \in SessionUsers |-> NoRow]
    /\ aRows0 = aRows
    /\ aUser = "none"
    /\ aIsAdmin = FALSE
    /\ aPath = "/auth"
    /\ aClosureUser = "none"
    /\ aEffectPath = "/auth"
    /\ aEvent = [e \in Events |-> "none"]
    /\ aEvUser = [e \in Events |-> "none"]
    /\ aPc = [e \in Events |-> "idle"]
    /\ aNavs = [e \in Events |-> <<>>]
    /\ aSelOutcome = [e \in Events |-> "none"]
    /\ aSelRow = [e \in Events |-> NoRow]
    /\ aCreated = [e \in Events |-> FALSE]
    /\ aEvClosure = [e \in Events |-> "none"]
    /\ aStored = "none"
    /\ aLoading = TRUE
    /\ aInitPc = [i \in Inits |-> "idle"]
    /\ aInitUser = [i \in Inits |-> "none"]
    /\ aInitClosure = [i \in Inits |-> "none"]

\* the app has been opened on /auth or on /home: the first render has user null and
\* loading true, the listener is subscribed and initializeAuth is running;
\* the students table and the stored session are what earlier visits left
AuthInputs ==
    /\ aRows \in {rows \in [SessionUsers -> AuthProfiles] : rows["adm"] = StoredProfile}
    /\ aRows0 = aRows
    /\ aUser = "none"
    /\ aIsAdmin = FALSE
    /\ aPath \in OpenPaths
    /\ aClosureUser = "none"
    /\ aEffectPath = aPath
    /\ aEvent = [e \in Events |-> "none"]
    /\ aEvUser = [e \in Events |-> "none"]
    /\ aPc = [e \in Events |-> "idle"]
    /\ aNavs = [e \in Events |-> <<>>]
    /\ aSelOutcome = [e \in Events |-> "none"]
    /\ aSelRow = [e \in Events |-> NoRow]
    /\ aCreated = [e \in Events |-> FALSE]
    /\ aEvClosure = [e \in Events |-> "none"]
    /\ aStored \in SessionUsers \cup {"none"}
    /\ aLoading = TRUE
    /\ aInitPc = [i \in Inits |-> IF i = 1 THEN "getSession" ELSE "idle"]
    /\ aInitUser = [i \in Inits |-> "none"]
    /\ aInitClosure = [i \in Inits |-> "none"]

\* /home has just been loaded by a signed-in user
HomeLoaded ==
    /\ hPhase = "loading"
    /\ isEmergencyMode = FALSE
    /\ online \in BOOLEAN
    /\ retryAttempt = 0
    /\ listening = FALSE
    /\ chains = [c \in Chains |-> "idle"]
    /\ profileQuery = "idle"
    /\ subjectsQuery = "idle"
    /\ bookmarksQuery = "idle"
    /\ profileData = "none"
    /\ subjectsData = "empty"
    /\ consecFails = 0
    /\ emCause = "none"

\* a call about to start: the function, its argument, and the tables it reads
FetchInputs ==
    /\ fFn \in Functions
    /\ fUserId \in {"", "u1"}
    /\ fInner \in IF fFn = "fetchSubjectsForStudent" THEN BOOLEAN ELSE {FALSE}
    /\ studentsRow \in IF fFn = "fetchSubjectsForStudent" /\ ~fInner
                       THEN {DefaultProfile} ELSE {NoRow, DefaultProfile}
    /\ subjectsTable \in IF fFn = "fetchSubjectsForStudent"
                         THEN SubsetsUpTo(SubjectRows, MaxSubjects) ELSE {{}}
    /\ bookmarksTable \in IF fFn \in {"fetchUserBookmarks1", "fetchUserBookmarks2"}
                          THEN FetchTables ELSE {<<>>}
    /\ (fFn = "fetchSubjectsForStudent" /\ ~fInner) => fUserId = "u1"
    /\ fPc = "start"
    /\ fAttempt = 0
    /\ fTimer = "off"
    /\ fSettled = <<"pending", "pending">>
    /\ fResult = Pending
    /\ fThrew = FALSE
    /\ fAllFailed = TRUE
    /\ fMainSent = 0
    /\ fFallbackSent = 0
    /\ fLastOutcome = "none"
    /\ fBackoffMs = 0
    /\ bResult = NoResult
    /\ bLast = NoCall
    /\ bBeforeLast = <<>>
    /\ bRepeat = FALSE

InitPure == PureInputs /\ BookmarkIdle /\ FetchIdle /\ HomeIdle /\ CountersIdle /\ AuthIdle /\ AdminIdle

InitBookmark == PureIdle /\ BookmarkIdle /\ FetchIdle /\ HomeIdle /\ CountersIdle /\ AuthIdle /\ AdminIdle

InitFetch == PureIdle /\ FetchInputs /\ HomeIdle /\ CountersIdle /\ AuthIdle /\ AdminIdle

InitHome == PureIdle /\ BookmarkIdle /\ FetchIdle /\ HomeLoaded /\ CountersIdle /\ AuthIdle /\ AdminIdle

InitAuth == PureIdle /\ BookmarkIdle /\ FetchIdle /\ HomeIdle /\ CountersIdle /\ AuthInputs /\ AdminIdle

InitAdmin == PureIdle /\ BookmarkIdle /\ FetchIdle /\ HomeIdle /\ CountersIdle /\ AuthIdle /\ AdminInputs

InitCounters == PureIdle /\ BookmarkIdle /\ FetchIdle /\ HomeIdle /\ CountersInputs /\ AuthIdle /\ AdminIdle

PureNext == CallIsBookmarked

SpecPure == InitPure /\ [][PureNext]_vars

SpecBookmark == InitBookmark /\ [][BookmarkNext]_vars

SpecFetch == InitFetch /\ [][FetchNext]_vars

SpecHome == InitHome /\ [][HomeNext]_vars

SpecCounters == InitCounters /\ [][CountersNext]_vars

SpecAuth == InitAuth /\ [][AuthNext]_vars

SpecAdmin == InitAdmin /\ [][AdminNext]_vars

\* the runtime runs the program's own steps and its timers; nothing obliges
\* the backend to answer a request
SpecFetchLive ==
    /\ InitFetch
    /\ [][FetchNext]_vars
    /\ WF_vars(FetchCall)
    /\ WF_vars(TimerFires)
    /\ WF_vars(BackoffElapses)

====
